---- MODULE Spec2Model ----
(***************************************************************************)
(* Model of docu's association engine, docu/parsers.py: the comment        *)
(* scanner extract_doc_comments and parse_python_file, which attributes    *)
(* the collected "#/" comment lines to the module and to the class and     *)
(* function declarations of one Python source file.                        *)
(*                                                                         *)
(* A source file is a sequence of lines.  A line is blank, a plain         *)
(* statement ("code"), a "#/" comment with a body, the header of a         *)
(* compound statement such as `if` ("block"), or the header of a class or  *)
(* function declaration.  Headers name the line of the statement whose     *)
(* body holds them (container, 0 for the module), which is the part of     *)
(* the syntax tree ast.parse builds that the code reads.  Strings are      *)
(* sequences of one-character strings, so that joining, replacing and      *)
(* key building are computed as the code computes them.                    *)
(***************************************************************************)
EXTENDS Integers, Sequences, FiniteSets, TLC

\* ---------------------------------------------------------------- bounds
\* largest file, by weight: a blank line and a comment with a body weigh 1;
\* a statement, a comment without a body and a header weigh 2
MaxSize == 7

\* most parameters of a function, and largest file of the specification of
\* signatures, by weight: a class and a compound statement weigh 2, a
\* function 2 more than it has parameters
MaxParams == 2
MaxDecl == 6
\* largest file of the specification of class bodies, by weight: an
\* assignment weighs 1, a class, a function and a compound statement 2
MaxBody == 5
\* deepest annotation expression of the specification of the type renderer
MaxDepth == 3
\* most declarations of a file of the specification of the Markdown renderer
MaxItems == 3
\* most declarations of a documented file of that specification
MaxDocumented == 4
\* the declarations of a file process_file is called on, and the calls
MaxFileItems == 1
MaxRuns == 2
\* the paths given with --files
MaxFiles == 2
\* the weight of a file whose declarations are visited in any order
MaxVisited == 6
\* the lines and the declarations of a long file
MaxLong == 22
MaxLongDecls == 2
\* the modification times of the files the preview server lists
MaxClock == 3

\* ------------------------------------------------------------ constants
\* parsers.py:88, a module comment lies more than this many lines above
Gap == 3
\* parsers.py:117, the upward scan's look-back
LookBack == 20

None == <<>>
NL == "\n"
Names == {<<"A">>, <<"B">>}
\* the paths a file is parsed under
FilePaths == {<<"A", ".", "p", "y">>,
              <<"d", "/", "M", ".", "p", "y", ".", "p", "y">>}
\* the body of a non-empty comment written on line i
Letters == <<"a", "b", "c", "e", "f", "g", "h", "i", "j", "k",
            "l", "m", "n", "o", "q", "r", "s", "t", "u", "v">>
Body(i) == <<Letters[i]>>

VARIABLES
  lines,            \* the file on disk: a sequence of line records
  pc,               \* "edit": file being written; "walk": inside
                    \* parse_python_file's main loop; "done": returned
  file_path,        \* the path parse_python_file was called with
  todo,             \* declaration lines ast.walk has yet to yield
  used_doc_lines,   \* parsers.py:80
  module_doc_lines, \* parsers.py:79
  doc_items,        \* parsers.py:52, key -> DocItem
  doc_keys,         \* the keys of doc_items in the order of their insertion
  class_methods,    \* parsers.py:108, class name -> sequence of DocItem
  h_module,         \* history: the line numbers behind module_doc_lines
  h_attached,       \* history: declaration line -> the lines in item_docs
  type_node,        \* ast_utils.py:6, the node get_type_str is called with
  rendered,         \* <<>>, or <<s>> once get_type_str has returned s
  md_content,       \* generators.py:29, when generate_markdown_docs returns
  markdown,         \* the string generate_markdown_docs returns
  out_files,        \* docgen.py:414-417, output path -> what the file holds
  out_dirs,         \* docgen.py:411, the output directories there are
  runs,             \* history: the calls of process_file, oldest first
  parsed_args,      \* cli.py:82, None before main is called
  rc,               \* <<code>> once main has returned code, <<>> otherwise
  stderr,           \* the messages main has printed to sys.stderr
  stdout,           \* the messages main has printed to sys.stdout
  calls,            \* history: the functions main has invoked, in order,
                    \* and whether the call raised an exception
  directory,        \* watcher.py:372, the directory served, None before
  dir_files,        \* the files of that directory: name -> modification time
  file_list_cache,  \* watcher.py:303, directory -> frozenset of (name, mtime)
  clock,            \* the modification time the next write gives a file
  pending,          \* livereload has seen the directory change and has
                    \* yet to call safe_update_index
  h_rewrites,       \* history: the writes of index.html by
                    \* update_index_if_needed since a documentation file
                    \* last changed
  h_should,         \* history: the last call of should_update_index
  handler,          \* watcher.py:118, the DocuHandler scheduled, None before
  alive,            \* the observer's thread is running
  h_event,          \* history: the last event on_modified was called
                    \* with, and what the call did
  h_failed          \* history: a call of process_file by on_modified
                    \* has raised

\* the variables of parse_python_file, of get_type_str, of
\* generate_markdown_docs
parse_vars == <<lines, pc, file_path, todo, used_doc_lines, module_doc_lines,
                doc_items, doc_keys, class_methods, h_module, h_attached>>
type_vars == <<type_node, rendered>>
md_vars == <<md_content, markdown>>
file_vars == <<out_files, out_dirs, runs>>
cli_vars == <<parsed_args, rc, stderr, stdout, calls>>
serve_vars == <<directory, dir_files, file_list_cache, clock, pending,
                h_rewrites, h_should>>
watch_vars == <<handler, alive, h_event, h_failed>>
vars == <<parse_vars, type_vars, md_vars, file_vars, cli_vars, serve_vars,
          watch_vars>>

\* ------------------------------------------------------------ utilities
Max(a, b) == IF a >= b THEN a ELSE b
Min(S) == CHOOSE x \in S : \A y \in S : x <= y
Empty == [x \in {} |-> None]
Put(f, k, v) == [x \in DOMAIN f \cup {k} |-> IF x = k THEN v ELSE f[x]]

\* The elements of a finite set of numbers in ascending order.
RECURSIVE Ascending(_)
Ascending(S) == IF S = {} THEN <<>>
                ELSE <<Min(S)>> \o Ascending(S \ {Min(S)})

\* ------------------------------------------------------------- the file
\* ast.arguments of a declaration without parameters
NoArguments == [posonlyargs |-> <<>>, args |-> <<>>, vararg |-> None,
                kwonlyargs |-> <<>>, kwarg |-> None]
Plain(kind, text) ==
  [kind |-> kind, text |-> text, name |-> None, container |-> 0,
   args |-> NoArguments, returns |-> None, target |-> None, annotation |-> None]
Header(kind, name, c) ==
  [kind |-> kind, text |-> <<>>, name |-> name, container |-> c,
   args |-> NoArguments, returns |-> None, target |-> None, annotation |-> None]
\* def name(args) -> returns:  in the body of the statement at line c
FunctionDef(name, c, args, returns) ==
  [kind |-> "func", text |-> <<>>, name |-> name, container |-> c,
   args |-> args, returns |-> returns, target |-> None, annotation |-> None]
\* target: annotation = ...  ("annassign") or target = ...  ("assign"), a
\* direct statement of the body of the statement at line c
Statement(kind, target, annotation, c) ==
  [kind |-> kind, text |-> <<>>, name |-> None, container |-> c,
   args |-> NoArguments, returns |-> None, target |-> target, annotation |-> annotation]

IsNode(l) == l.kind \in {"block", "class", "func"}
IsDecl(l) == l.kind \in {"class", "func"}
NodeLines(ls) == {i \in 1..Len(ls) : IsNode(ls[i])}
DeclLines(ls) == {i \in 1..Len(ls) : IsDecl(ls[i])}

\* The statements whose bodies are still open after the last line of ls:
\* the last header and the headers around it.
RECURSIVE Chain(_, _)
Chain(ls, i) == IF i = 0 THEN {} ELSE {i} \cup Chain(ls, ls[i].container)
Open(ls) == IF NodeLines(ls) = {} THEN {}
            ELSE Chain(ls, CHOOSE i \in NodeLines(ls) : \A j \in NodeLines(ls) : j <= i)

\* The lines that may follow ls in a syntactically valid file.
NextLines(ls) ==
  {Plain("blank", <<>>), Plain("code", <<>>),
   Plain("comment", <<>>), Plain("comment", Body(Len(ls) + 1))}
  \cup {Header("block", None, c) : c \in {0} \cup Open(ls)}
  \cup {Header(k, n, c) : k \in {"class", "func"}, n \in Names, c \in {0} \cup Open(ls)}

Weight(l) ==
  IF l.kind = "blank" \/ (l.kind = "comment" /\ l.text # <<>>) THEN 1 ELSE 2
RECURSIVE Size(_)
Size(ls) == IF Len(ls) = 0 THEN 0 ELSE Weight(ls[1]) + Size(Tail(ls))

\* ------------------------------------------------------ docu/ast_utils.py
\* The annotation expressions ast.parse builds.  Index is the wrapper that
\* Python 3.8 and older put around the slice of a subscript; BinOp stands
\* for every expression get_type_str has no case for (`int | None`).
Name(id) == [node |-> "Name", id |-> id]
Subscript(value, slice) == [node |-> "Subscript", value |-> value, slice |-> slice]
Attribute(value, attr) == [node |-> "Attribute", value |-> value, attr |-> attr]
Constant(value) == [node |-> "Constant", value |-> value]
List(elts) == [node |-> "List", elts |-> elts]
Tuple(elts) == [node |-> "Tuple", elts |-> elts]
Index(value) == [node |-> "Index", value |-> value]
BinOp == [node |-> "BinOp"]

\* The values of the constants of an annotation: None and a string.
PyNone == [type |-> "NoneType"]
PyStr(chars) == [type |-> "str", chars |-> chars]
\* str(value)
py_str(value) == IF value.type = "NoneType" THEN <<"N", "o", "n", "e">> ELSE value.chars

\* sep.join(parts)
RECURSIVE str_join(_, _)
str_join(sep, parts) ==
  IF Len(parts) = 0 THEN <<>>
  ELSE IF Len(parts) = 1 THEN parts[1]
  ELSE parts[1] \o sep \o str_join(sep, Tail(parts))

\* get_type_str, ast_utils.py:6-24
RECURSIVE get_type_str(_)
get_type_str(node) ==
  IF node.node = "Name" THEN node.id
  ELSE IF node.node = "Subscript"
  THEN get_type_str(node.value) \o <<"[">> \o get_type_str(node.slice) \o <<"]">>
  ELSE IF node.node = "Attribute"
  THEN get_type_str(node.value) \o <<".">> \o node.attr
  ELSE IF node.node = "Constant" THEN py_str(node.value)
  ELSE IF node.node = "List"
  THEN <<"[">> \o str_join(<<",", " ">>,
                  [i \in 1..Len(node.elts) |-> get_type_str(node.elts[i])]) \o <<"]">>
  ELSE IF node.node = "Tuple"
  THEN <<"(">> \o str_join(<<",", " ">>,
                  [i \in 1..Len(node.elts) |-> get_type_str(node.elts[i])]) \o <<")">>
  ELSE <<"A", "n", "y">>

\* The annotations get_type_str is called with: the expressions of depth
\* at most d over a few names, constants and bases.
TypeAtoms ==
  {Name(<<"s", "t", "r">>), Name(<<"i", "n", "t">>), Constant(PyNone), Constant(PyStr(<<"X">>)),
   Attribute(Name(<<"t">>), <<"T">>), BinOp}
TypeBases == {Name(<<"D", "i", "c", "t">>), Name(<<"O", "p", "t", "i", "o", "n", "a", "l">>)}
RECURSIVE TypeExprs(_)
TypeExprs(d) ==
  IF d = 0 THEN TypeAtoms
  ELSE LET T == TypeExprs(d - 1) IN
    TypeAtoms
    \cup {Subscript(b, x) : b \in TypeBases, x \in T}
    \cup {Subscript(b, Index(x)) : b \in TypeBases, x \in T}
    \cup {Tuple(<<Name(<<"s", "t", "r">>), x>>) : x \in T}
    \cup {List(<<x>>) : x \in T}

\* ------------------------------------------- signatures and class bodies
\* The parameters a function is declared with: kind 1 is positional-only
\* (before `/`), 2 positional-or-keyword, 3 `*args`, 4 keyword-only,
\* 5 `**kwargs`.
ParamNames == {<<"s", "e", "l", "f">>, <<"a">>, <<"b">>}
ParamAnnotations == {None, Name(<<"i", "n", "t">>)}
Params == {p \in [kind : 1..5, arg : ParamNames, annotation : ParamAnnotations] :
             p.annotation = None \/ p.kind = 2}
ParamLists ==
  {ps \in UNION {[1..n -> Params] : n \in 0..MaxParams} :
     /\ \A i, j \in 1..Len(ps) : i < j =>
          /\ ps[i].kind <= ps[j].kind
          /\ ps[i].arg # ps[j].arg
          /\ ~(ps[i].kind = ps[j].kind /\ ps[i].kind \in {3, 5})}
\* The parameters of kind k of the list ps, as ast.arg nodes.
ArgsOfKind(ps, k) ==
  LET sel == SelectSeq(ps, LAMBDA p : p.kind = k)
  IN [i \in 1..Len(sel) |-> [arg |-> sel[i].arg, annotation |-> sel[i].annotation]]
\* ast.arguments of `def f(ps)`
arguments_of(ps) ==
  [posonlyargs |-> ArgsOfKind(ps, 1),
   args |-> ArgsOfKind(ps, 2),
   vararg |-> IF Len(ArgsOfKind(ps, 3)) > 0 THEN ArgsOfKind(ps, 3)[1] ELSE None,
   kwonlyargs |-> ArgsOfKind(ps, 4),
   kwarg |-> IF Len(ArgsOfKind(ps, 5)) > 0 THEN ArgsOfKind(ps, 5)[1] ELSE None]
Signatures == {arguments_of(ps) : ps \in ParamLists}
ReturnAnnotations == {None, Name(<<"f", "l", "o", "a", "t">>)}

\* The targets and annotations of the assignments of a body.
AnnTargets == {Name(<<"x">>), Name(<<"y">>), Attribute(Name(<<"A">>), <<"x">>)}
FieldAnnotations == {Name(<<"i", "n", "t">>), Name(<<"s", "t", "r">>)}
AssignTargets == {Name(<<"z">>), Tuple(<<Name(<<"x">>), Name(<<"y">>)>>)}
IsStatement(l) == l.kind \in {"annassign", "assign"}

\* The statements whose bodies are still open after the last line of ls,
\* when every line of ls is a header or an assignment.
DeclOpen(ls) ==
  IF Len(ls) = 0 THEN {}
  ELSE IF IsNode(ls[Len(ls)]) THEN Chain(ls, Len(ls))
  ELSE Chain(ls, ls[Len(ls)].container)
DeclNextLines(ls) ==
  LET C == {0} \cup DeclOpen(ls) IN
    {FunctionDef(n, c, a, None) : n \in Names, c \in C, a \in Signatures}
    \cup {FunctionDef(n, c, NoArguments, r) :
            n \in Names, c \in C, r \in ReturnAnnotations}
    \cup {Header("class", n, c) : n \in Names, c \in C}
    \cup {Header("block", None, c) : c \in C}
NumParams(l) ==
  Len(l.args.posonlyargs) + Len(l.args.args) + Len(l.args.kwonlyargs)
  + (IF l.args.vararg # None THEN 1 ELSE 0) + (IF l.args.kwarg # None THEN 1 ELSE 0)
\* The lines that may follow ls in a file of headers and of assignments
\* inside bodies.
BodyNextLines(ls) ==
  {Header(k, n, c) : k \in {"class", "func"}, n \in Names, c \in {0} \cup DeclOpen(ls)}
  \cup {Header("block", None, c) : c \in {0} \cup DeclOpen(ls)}
  \cup {Statement("annassign", t, a, c) :
          t \in AnnTargets, a \in FieldAnnotations, c \in DeclOpen(ls)}
  \cup {Statement("assign", t, None, c) : t \in AssignTargets, c \in DeclOpen(ls)}
DeclWeight(l) == IF l.kind = "func" THEN 2 + NumParams(l)
                 ELSE IF IsStatement(l) THEN 1 ELSE 2
RECURSIVE DeclSize(_)
DeclSize(ls) == IF Len(ls) = 0 THEN 0 ELSE DeclWeight(ls[1]) + DeclSize(Tail(ls))

\* ------------------------------------------------- docu/parsers.py, pure
\* extract_doc_comments: (line number, body) of every "#/" line, in file order.
RECURSIVE extract_doc_comments_from(_, _)
extract_doc_comments_from(ls, i) ==
  IF i > Len(ls) THEN <<>>
  ELSE (IF ls[i].kind = "comment" THEN << <<i, ls[i].text>> >> ELSE <<>>)
       \o extract_doc_comments_from(ls, i + 1)
extract_doc_comments(ls) == extract_doc_comments_from(ls, 1)

\* doc_lines = {line_no: comment for line_no, comment in doc_comments}
doc_lines_of(doc_comments) ==
  [n \in {doc_comments[k][1] : k \in 1..Len(doc_comments)} |->
     doc_comments[CHOOSE k \in 1..Len(doc_comments) : doc_comments[k][1] = n][2]]

\* '\n'.join(parts)  (variant: every part followed by a newline)
RECURSIVE join_lines(_)
join_lines(parts) == IF Len(parts) = 0 THEN <<>>
                     ELSE parts[1] \o <<NL>> \o join_lines(Tail(parts))
RECURSIVE Join(_)
Join(parts) == IF Len(parts) = 0 THEN <<>>
               ELSE IF Len(parts) = 1 THEN parts[1]
               ELSE parts[1] \o <<NL>> \o Join(Tail(parts))

\* os.path.basename(path): what follows the last "/"
RECURSIVE basename(_)
basename(path) ==
  IF \E k \in 1..Len(path) : path[k] = "/"
  THEN basename(SubSeq(path, (CHOOSE k \in 1..Len(path) : path[k] = "/") + 1, Len(path)))
  ELSE path

\* s.replace('.py', ''): every occurrence of ".py" removed, left to right
RECURSIVE strip_py(_)
strip_py(s) ==
  IF Len(s) = 0 THEN <<>>
  ELSE IF Len(s) >= 3 /\ SubSeq(s, 1, 3) = <<".", "p", "y">>
       THEN strip_py(SubSeq(s, 4, Len(s)))
       ELSE <<s[1]>> \o strip_py(Tail(s))
module_name_of(path) == strip_py(basename(path))

\* top_level_nodes: the declarations that are direct children of the module,
\* sorted by line
top_level_nodes(ls) == Ascending({i \in DeclLines(ls) : ls[i].container = 0})

\* parsers.py:83-95, whether the module pass takes the comment on line_no;
\* top is top_level_nodes.
\* (variants: without the gap test; with the gap test off by one)
is_module_level_any(top, line_no) ==
  IF Len(top) > 0 THEN line_no < top[1] ELSE TRUE
is_module_level_ge(top, line_no) ==
  IF Len(top) > 0 THEN line_no < top[1] /\ top[1] - line_no >= Gap ELSE TRUE
is_module_level(top, line_no) ==
  IF Len(top) > 0 THEN line_no < top[1] /\ top[1] - line_no > Gap ELSE TRUE

\* The comments that the module pass takes: [docs, used].
RECURSIVE module_pass(_, _, _)
module_pass(doc_comments, top, acc) ==
  IF Len(doc_comments) = 0 THEN acc
  ELSE LET line_no == doc_comments[1][1]
           comment == doc_comments[1][2]
       IN module_pass(Tail(doc_comments), top,
            IF is_module_level(top, line_no)
            THEN [docs |-> Append(acc.docs, comment),
                  used |-> acc.used \cup {line_no}]
            ELSE acc)
module_docs(ls) ==
  module_pass(extract_doc_comments(ls), top_level_nodes(ls), [docs |-> <<>>, used |-> {}])

\* Depth of a header in the syntax tree (the module's children are at 1).
RECURSIVE Depth(_, _)
Depth(ls, i) == IF i = 0 THEN 0 ELSE 1 + Depth(ls, ls[i].container)

\* The declarations in the order ast.walk yields them: breadth first, each
\* level in source order.
RECURSIVE walk_from(_, _)
walk_from(ls, S) ==
  IF S = {} THEN <<>>
  ELSE LET n == CHOOSE i \in S : \A j \in S :
                   \/ Depth(ls, i) < Depth(ls, j)
                   \/ Depth(ls, i) = Depth(ls, j) /\ i <= j
       IN <<n>> \o walk_from(ls, S \ {n})
ast_walk(ls) == walk_from(ls, DeclLines(ls))

\* One iteration of the upward scan for the declaration at line n,
\* parsers.py:118-130: "take" the comment on line_no, "break", or go on
\* ("skip").  dl is doc_lines.  lines[line_no] of the code indexes from 0:
\* it is the text of line line_no + 1.
\* (variants: one that does not look at used_doc_lines; one that never breaks)
scan_step_reuses(ls, dl, n, line_no, used) ==
  IF line_no \in DOMAIN dl
  THEN IF (line_no + 1) \notin DOMAIN dl /\ line_no # n - 1 THEN "break" ELSE "take"
  ELSE IF line_no < Len(ls) /\ ls[line_no + 1].kind # "blank" THEN "break" ELSE "skip"
scan_step_lenient(ls, dl, n, line_no, used) ==
  IF line_no \in DOMAIN dl /\ line_no \notin used THEN "take" ELSE "skip"
scan_step(ls, dl, n, line_no, used) ==
  IF line_no \in DOMAIN dl /\ line_no \notin used
  THEN IF (line_no + 1) \notin DOMAIN dl /\ line_no # n - 1 THEN "break" ELSE "take"
  ELSE IF line_no \notin DOMAIN dl
       THEN IF line_no < Len(ls) /\ ls[line_no + 1].kind # "blank"
            THEN "break" ELSE "skip"
       ELSE "skip"

\* scan, with the line node.lineno - 20 included in the range
RECURSIVE scan_inclusive(_, _, _, _, _)
scan_inclusive(ls, dl, n, line_no, acc) ==
  IF line_no < Max(1, n - LookBack) THEN acc
  ELSE LET step == scan_step(ls, dl, n, line_no, acc.used) IN
    IF step = "break" THEN acc
    ELSE IF step = "take"
    THEN scan_inclusive(ls, dl, n, line_no - 1,
                        [docs |-> <<dl[line_no]>> \o acc.docs,
                         lns |-> acc.lns \cup {line_no},
                         used |-> acc.used \cup {line_no}])
    ELSE scan_inclusive(ls, dl, n, line_no - 1, acc)
\* for line_no in range(node.lineno - 1, max(0, node.lineno - 20), -1):
\* [docs, lns, used] after the loop.
RECURSIVE scan(_, _, _, _, _)
scan(ls, dl, n, line_no, acc) ==
  IF line_no <= Max(0, n - LookBack) THEN acc
  ELSE LET step == scan_step(ls, dl, n, line_no, acc.used) IN
    IF step = "break" THEN acc
    ELSE IF step = "take"
    THEN scan(ls, dl, n, line_no - 1,
              [docs |-> <<dl[line_no]>> \o acc.docs,
               lns |-> acc.lns \cup {line_no},
               used |-> acc.used \cup {line_no}])
    ELSE scan(ls, dl, n, line_no - 1, acc)
item_docs_of(ls, n, used) ==
  scan(ls, doc_lines_of(extract_doc_comments(ls)), n, n - 1,
       [docs |-> <<>>, lns |-> {}, used |-> used])

\* The name of the nearest class among the statement at line c and the
\* statements around it, None when there is none.
RECURSIVE enclosing_class(_, _)
enclosing_class(ls, c) ==
  IF c = 0 THEN None
  ELSE IF ls[c].kind = "class" THEN ls[c].name
  ELSE enclosing_class(ls, ls[c].container)

\* parent: the name of the class whose body holds the declaration directly,
\* parsers.py:132-140
\* (variant: the nearest class around the declaration, at any depth)
parent_of_enclosing(ls, n) == enclosing_class(ls, ls[n].container)
parent_of(ls, n) ==
  LET c == ls[n].container IN
    IF c # 0 /\ ls[c].kind = "class" /\ c < n THEN ls[c].name ELSE None

item_type_of(ls, n) ==
  IF ls[n].kind = "class" THEN "class"
  ELSE IF parent_of(ls, n) # None THEN "method" ELSE "function"

\* models.py:7-12
ArgumentInfo(name, type_hint) ==
  [name |-> name, type_hint |-> type_hint, default |-> None]

\* parsers.py:147-155: the parameters of node.args.args that are not named
\* self, in order
RECURSIVE args_from(_)
args_from(params) ==
  IF Len(params) = 0 THEN <<>>
  ELSE (IF params[1].arg = <<"s", "e", "l", "f">> THEN <<>>
        ELSE <<ArgumentInfo(params[1].arg,
                            IF params[1].annotation # None
                            THEN get_type_str(params[1].annotation) ELSE None)>>)
       \o args_from(Tail(params))
args_of(ls, n) ==
  IF ls[n].kind = "func" THEN args_from(ls[n].args.args) ELSE <<>>

\* parsers.py:157-160
return_type_of(ls, n) ==
  IF ls[n].kind = "func" /\ ls[n].returns # None
  THEN get_type_str(ls[n].returns) ELSE None

\* A dict is a sequence of <<key, value>> in insertion order; d[k] = v:
dict_set(d, k, v) ==
  IF \E i \in 1..Len(d) : d[i][1] = k
  THEN [i \in 1..Len(d) |-> IF d[i][1] = k THEN <<k, v>> ELSE d[i]]
  ELSE Append(d, <<k, v>>)

\* parsers.py:162-167: the fields of the class at line n, from the children
\* of its body from line i on
\* (variant of is_field: an annotated assignment anywhere below the class)
is_field_nested(ls, n, i) ==
  /\ n \in Chain(ls, ls[i].container)
  /\ ls[i].kind = "annassign"
  /\ ls[i].target.node = "Name"
is_field(ls, n, i) ==
  /\ ls[i].container = n
  /\ ls[i].kind = "annassign"
  /\ ls[i].target.node = "Name"
RECURSIVE fields_from(_, _, _, _)
fields_from(ls, n, i, acc) ==
  IF i > Len(ls) THEN acc
  ELSE fields_from(ls, n, i + 1,
         IF is_field(ls, n, i)
         THEN dict_set(acc, ls[i].target.id, get_type_str(ls[i].annotation))
         ELSE acc)
fields_of(ls, n) ==
  IF ls[n].kind = "class" THEN fields_from(ls, n, n + 1, <<>>) ELSE <<>>

\* models.py:15-34; None for args, fields or methods becomes the empty
\* list or dict
DocItem(name, doc, item_type, lineno, parent, args, return_type, fields) ==
  [name |-> name, doc |-> doc, item_type |-> item_type, lineno |-> lineno,
   parent |-> parent,
   args |-> IF args = None THEN <<>> ELSE args,
   return_type |-> return_type,
   fields |-> IF fields = None THEN <<>> ELSE fields,
   methods |-> <<>>]

\* (variant of full_name_of: always the bare name)
full_name_bare(ls, n) == ls[n].name
full_name_of(ls, n) ==
  IF parent_of(ls, n) # None THEN parent_of(ls, n) \o <<".">> \o ls[n].name
  ELSE ls[n].name

\* sorted(...) on <<key, item>> pairs: stable insertion sort by key
RECURSIVE insert_sorted(_, _)
insert_sorted(sorted, p) ==
  IF Len(sorted) = 0 THEN <<p>>
  ELSE IF p[1] < sorted[1][1] THEN <<p>> \o sorted
  ELSE <<sorted[1]>> \o insert_sorted(Tail(sorted), p)
RECURSIVE sorted_from(_, _)
sorted_from(pairs, acc) ==
  IF Len(pairs) = 0 THEN acc
  ELSE sorted_from(Tail(pairs), insert_sorted(acc, pairs[1]))
unpaired(pairs) == [i \in 1..Len(pairs) |-> pairs[i][2]]
\* the rank of a name in the order of Python's strings
name_rank(name) == IF name = <<"A">> THEN 1 ELSE 2
\* sorted(methods, key=lambda x: x.lineno), parsers.py:193
\* (variant: sorted by name)
sorted_by_name(ms) ==
  unpaired(sorted_from([i \in 1..Len(ms) |-> <<name_rank(ms[i].name), ms[i]>>], <<>>))
sorted_by_lineno(ms) ==
  unpaired(sorted_from([i \in 1..Len(ms) |-> <<ms[i].lineno, ms[i]>>], <<>>))

\* parsers.py:181-188: a method is buffered under its class's name and kept
\* out of doc_items; anything else is stored under its full name
class_methods_after(methods, doc_item) ==
  IF doc_item.item_type = "method"
  THEN Put(methods, doc_item.parent,
           IF doc_item.parent \in DOMAIN methods
           THEN Append(methods[doc_item.parent], doc_item)
           ELSE <<doc_item>>)
  ELSE methods
\* (variant of doc_items_after: without the `continue`)
doc_items_after_all(items, full_name, doc_item) ==
  Put(items, full_name, doc_item)
doc_items_after(items, full_name, doc_item) ==
  IF doc_item.item_type = "method" THEN items
  ELSE Put(items, full_name, doc_item)
\* the keys after doc_items[full_name] = doc_item: a new key comes last, a
\* key already there keeps its place
doc_keys_after(keys, full_name, doc_item) ==
  IF doc_item.item_type = "method" \/ \E i \in 1..Len(keys) : keys[i] = full_name
  THEN keys
  ELSE Append(keys, full_name)

\* ------------------------------------------------------ docu/generators.py
\* doc_items.values(): the values of the dict in insertion order
values(items, keys) == [i \in 1..Len(keys) |-> items[keys[i]]]

\* sorted(items, key=lambda x: x.name)
\* (variant: in the order given)
unsorted(items) == items
sorted_by_item_name(items) ==
  unpaired(sorted_from([i \in 1..Len(items) |-> <<name_rank(items[i].name), items[i]>>], <<>>))

\* arg.type_hint if arg.type_hint else 'Any'
type_or_any(arg) == IF arg.type_hint # <<>> THEN arg.type_hint ELSE <<"A", "n", "y">>

\* The code fence, three backquotes; a backquote is written ~ here.
Fence == <<"~", "~", "~">>
\* generators.py:68-77 and 102-111: the signature of a method or function
signature_of(item) ==
  Fence \o <<"p", "y", "t", "h", "o", "n", "\n", "d", "e", "f", " ">> \o item.name \o <<"(">>
  \o str_join(<<",", " ">>,
              [i \in 1..Len(item.args) |->
                 item.args[i].name \o <<":", " ">> \o type_or_any(item.args[i])])
  \o <<")">>
  \o (IF item.return_type # <<>> THEN <<" ", "-", ">", " ">> \o item.return_type ELSE <<>>)
  \o <<NL>> \o Fence
\* generators.py:77-88 and 111-122: what follows the heading of a method or
\* function
callable_parts(item) ==
  <<signature_of(item)>>
  \o (IF item.doc # <<>> THEN <<item.doc>> ELSE <<>>)
  \o (IF Len(item.args) > 0
      THEN <<<<"*", "*", "A", "r", "g", "u", "m", "e", "n", "t", "s", "*", "*">>>>
           \o [i \in 1..Len(item.args) |->
                 <<"-", " ">> \o item.args[i].name \o <<":", " ">>
                 \o type_or_any(item.args[i])]
      ELSE <<>>)
  \o (IF item.return_type # <<>> THEN <<<<"*", "*", "R", "e", "t", "u", "r", "n", "s", "*", "*", "\n", "-", " ">> \o item.return_type>> ELSE <<>>)

\* generators.py:65-88
RECURSIVE method_parts(_)
method_parts(methods) ==
  IF Len(methods) = 0 THEN <<>>
  ELSE <<<<"\n", "#", "#", "#", "#", "#", " ">> \o methods[1].name>> \o callable_parts(methods[1])
       \o method_parts(Tail(methods))

\* generators.py:59-62: the methods of cls, looked up among the values of
\* the mapping
methods_of(vals, cls) ==
  SelectSeq(vals, LAMBDA item : item.item_type = "method" /\ item.parent = cls.name)

\* generators.py:47-90
RECURSIVE class_parts(_, _)
class_parts(vals, classes) ==
  IF Len(classes) = 0 THEN <<>>
  ELSE LET cls == classes[1]
           methods == methods_of(vals, cls)
       IN <<<<"\n", "#", "#", "#", " ", "c", "l", "a", "s", "s", " ">> \o cls.name>>
          \o (IF Len(cls.fields) > 0
              THEN <<<<"\n", "#", "#", "#", "#", " ", "F", "i", "e", "l", "d", "s">>>>
                   \o [i \in 1..Len(cls.fields) |->
                         <<"-", " ", "*", "*">> \o cls.fields[i][1] \o <<"*", "*", ":", " ">> \o cls.fields[i][2]]
              ELSE <<>>)
          \o (IF cls.doc # <<>> THEN <<<<NL>> \o cls.doc>> ELSE <<>>)
          \o (IF Len(methods) > 0
              THEN <<<<"\n", "#", "#", "#", "#", " ", "M", "e", "t", "h", "o", "d", "s">>>> \o method_parts(sorted_by_item_name(methods))
              ELSE <<>>)
          \o << <<>> >>
          \o class_parts(vals, Tail(classes))

\* generators.py:99-124
RECURSIVE function_parts(_)
function_parts(functions) ==
  IF Len(functions) = 0 THEN <<>>
  ELSE <<<<"\n", "#", "#", "#", " ">> \o functions[1].name>> \o callable_parts(functions[1])
       \o << <<>> >>
       \o function_parts(Tail(functions))

\* generators.py:31-37: the module heading and text
module_parts(vals) ==
  LET module_items == SelectSeq(vals, LAMBDA item : item.item_type = "module") IN
    IF Len(module_items) > 0 /\ module_items[1].doc # <<>>
    THEN <<<<"#", " ", "M", "o", "d", "u", "l", "e", " ">> \o module_items[1].name, module_items[1].doc, <<>> >>
    ELSE <<>>

\* md_content when generate_markdown_docs returns, generators.py:29-124
md_content_of(vals) ==
  LET classes == SelectSeq(vals, LAMBDA item : item.item_type = "class")
      functions == SelectSeq(vals, LAMBDA item :
                      item.item_type = "function" /\ item.parent = <<>>)
      head == module_parts(vals)
  IN head
     \o (IF Len(classes) > 0
         THEN (IF Len(head) = 0
               THEN <<<<"#", " ", "M", "o", "d", "u", "l", "e", " ">> \o basename(classes[1].name), <<>> >> ELSE <<>>)
              \o <<<<"#", "#", " ", "C", "l", "a", "s", "s", "e", "s">>>> \o class_parts(vals, sorted_by_item_name(classes))
         ELSE <<>>)
     \o (IF Len(functions) > 0
         THEN <<<<"#", "#", " ", "F", "u", "n", "c", "t", "i", "o", "n", "s">>>> \o function_parts(sorted_by_item_name(functions))
         ELSE <<>>)
\* generate_markdown_docs(doc_items), generators.py:20-126
generate_markdown_docs(items, keys) == Join(md_content_of(values(items, keys)))

\* --------------------------------------------------------- docu/docgen.py
\* docgen.py:120-129: the leading comments, each taken while a function,
\* class or assignment begins below it
RECURSIVE docgen_module_doc(_, _)
docgen_module_doc(ls, doc_comments) ==
  IF Len(doc_comments) = 0 THEN <<>>
  ELSE IF \E i \in 1..Len(ls) :
            ls[i].kind \in {"func", "class", "assign"} /\ i > doc_comments[1][1]
       THEN <<doc_comments[1][2]>> \o docgen_module_doc(ls, Tail(doc_comments))
       ELSE <<>>

\* docgen.py:147-153: the comments on the lines right above line_no + 1,
\* walking up until a line without one
RECURSIVE docgen_item_docs(_, _)
docgen_item_docs(ls, line_no) ==
  IF line_no >= 1 /\ ls[line_no].kind = "comment"
  THEN Append(docgen_item_docs(ls, line_no - 1), ls[line_no].text)
  ELSE <<>>

\* docgen.py:144-212, the main loop over the declarations in todo;
\* acc is [items, keys, methods]: doc_items, its keys in insertion order,
\* class_methods. From docgen.py:155 on the body is that of parsers.py.
RECURSIVE docgen_walk(_, _, _)
docgen_walk(ls, nodes, acc) ==
  IF Len(nodes) = 0 THEN acc
  ELSE LET n == nodes[1]
           doc_item == DocItem(ls[n].name, Join(docgen_item_docs(ls, n - 1)),
                               item_type_of(ls, n), n, parent_of(ls, n),
                               args_of(ls, n), return_type_of(ls, n), fields_of(ls, n))
       IN docgen_walk(ls, Tail(nodes),
            [items |-> doc_items_after(acc.items, full_name_of(ls, n), doc_item),
             keys |-> doc_keys_after(acc.keys, full_name_of(ls, n), doc_item),
             methods |-> class_methods_after(acc.methods, doc_item)])

\* docgen.parse_python_file(file_path), docgen.py:94-218: [items, keys]
docgen_parse_python_file(ls, path) ==
  LET module_name == module_name_of(path)
      module_doc == docgen_module_doc(ls, extract_doc_comments(ls))
      start == IF Len(module_doc) > 0
               THEN [items |-> Put(Empty, module_name,
                                   DocItem(module_name, Join(module_doc), "module", 1,
                                           None, None, None, None)),
                     keys |-> <<module_name>>, methods |-> Empty]
               ELSE [items |-> Empty, keys |-> <<>>, methods |-> Empty]
      walked == docgen_walk(ls, ast_walk(ls), start)
  IN [items |-> [k \in DOMAIN walked.items |->
                   IF k \in DOMAIN walked.methods
                   THEN [walked.items[k] EXCEPT
                           !.methods = sorted_by_lineno(walked.methods[k])]
                   ELSE walked.items[k]],
      keys |-> walked.keys]

\* docgen.generate_markdown_docs, docgen.py:221-327: line for line the text
\* of generators.py:20-126
docgen_generate_markdown_docs(items, keys) == generate_markdown_docs(items, keys)

\* docgen.generate_html_docs, docgen.py:330-373: the rendering of a
\* template is kept as the template's name and the data handed to it
generate_html_docs(items, keys, template_name) ==
  LET vals == values(items, keys)
      classes == SelectSeq(vals, LAMBDA item : item.item_type = "class")
  IN <<[template |-> template_name,
        items |-> vals,
        documented |-> {k \in DOMAIN items : items[k].doc # <<>>}
                       \cup UNION {{classes[c].name \o <<".">> \o classes[c].methods[m].name :
                                      m \in {x \in 1..Len(classes[c].methods) :
                                               classes[c].methods[x].doc # <<>>}} :
                                   c \in 1..Len(classes)}]>>

\* str.replace('.py', new)
RECURSIVE replace_py(_, _)
replace_py(s, new) ==
  IF Len(s) = 0 THEN <<>>
  ELSE IF Len(s) >= 3 /\ SubSeq(s, 1, 3) = <<".", "p", "y">>
       THEN new \o replace_py(SubSeq(s, 4, Len(s)), new)
       ELSE <<s[1]>> \o replace_py(Tail(s), new)

\* open(output_path, 'w') and f.write(content): the file holds content
\* (variant: opened for appending)
written_appended(files, output_path, content) ==
  Put(files, output_path,
      IF output_path \in DOMAIN files THEN files[output_path] \o content ELSE content)
written(files, output_path, content) == Put(files, output_path, content)

\* template_manager.py:73: the templates whose .html file exists in the
\* templates directory
TemplateFiles ==
  {<<"d", "e", "f", "a", "u", "l", "t">>, <<"m", "i", "n", "i", "m", "a", "l">>,
   <<"m", "o", "d", "e", "r", "n">>, <<"r", "t", "d">>}

\* process_file(file_path, output_format, output_dir, template_name,
\* doc_style), docgen.py:376-421, with a the arguments, ls what the file
\* holds, files and dirs the output files and directories there are, and
\* fault what goes wrong around the call: "none", "missing" (no file at
\* file_path), "syntax" (ast.parse rejects the file), "makedirs", "open" or
\* "write" (that call raises OSError).
\* [raises, returned, files, dirs, doc_items]
process_file(ls, a, fault, files, dirs) ==
  LET parsed == docgen_parse_python_file(ls, a.file_path)
      content == IF a.output_format = "markdown"
                 THEN docgen_generate_markdown_docs(parsed.items, parsed.keys)
                 ELSE generate_html_docs(parsed.items, parsed.keys, a.template_name)
      output_filename ==
        IF a.output_format = "markdown"
        THEN replace_py(basename(a.file_path), <<".", "m", "d">>)
        ELSE replace_py(basename(a.file_path), <<>>) \o <<"_">> \o a.template_name
             \o <<".", "h", "t", "m", "l">>
      output_path == a.output_dir \o <<"/">> \o output_filename
      result(e, returned, fs, ds, items) ==
        [raises |-> e, returned |-> returned, files |-> fs, dirs |-> ds,
         doc_items |-> items]
  IN IF fault = "missing"
     THEN result(<<"FileNotFoundError">>, None, files, dirs, Empty)
     ELSE IF fault = "syntax"
     THEN result(<<"SyntaxError">>, None, files, dirs, Empty)
     ELSE IF a.output_format # "markdown"
             /\ a.doc_style \notin {"google", "numpy", "sphinx"}
     THEN result(<<"ValueError">>, None, files, dirs, parsed.items)
     ELSE IF a.output_format # "markdown" /\ a.template_name \notin TemplateFiles
     THEN result(<<"ValueError">>, None, files, dirs, parsed.items)
     ELSE IF a.output_dir = None
     THEN result(None, content, files, dirs, parsed.items)
     ELSE IF fault = "makedirs"
     THEN result(<<"OSError">>, None, files, dirs, parsed.items)
     ELSE IF fault = "open"
     THEN result(<<"OSError">>, None, files, dirs \cup {a.output_dir}, parsed.items)
     ELSE IF fault = "write"
     THEN result(<<"OSError">>, None, written(files, output_path, <<>>),
                 dirs \cup {a.output_dir}, parsed.items)
     ELSE result(None, output_path, written(files, output_path, content),
                 dirs \cup {a.output_dir}, parsed.items)

\* -------------------------------------------------------------- actions
InitParse ==
  /\ lines = <<>>
  /\ pc = "edit"
  /\ file_path = None
  /\ todo = <<>>
  /\ used_doc_lines = {}
  /\ module_doc_lines = <<>>
  /\ doc_items = Empty
  /\ doc_keys = <<>>
  /\ class_methods = Empty
  /\ h_module = {}
  /\ h_attached = Empty
InitTypeStr ==
  /\ type_node = None
  /\ rendered = <<>>
InitMarkdown ==
  /\ md_content = <<>>
  /\ markdown = <<>>
InitFile ==
  /\ out_files = Empty
  /\ out_dirs = {}
  /\ runs = <<>>
InitCli ==
  /\ parsed_args = None
  /\ rc = <<>>
  /\ stderr = <<>>
  /\ stdout = <<>>
  /\ calls = <<>>
InitServe ==
  /\ directory = None
  /\ dir_files = Empty
  /\ file_list_cache = Empty
  /\ clock = 1
  /\ pending = FALSE
  /\ h_rewrites = 0
  /\ h_should = None
InitWatch ==
  /\ handler = None
  /\ alive = FALSE
  /\ h_event = None
  /\ h_failed = FALSE
Init ==
  /\ InitParse
  /\ InitTypeStr
  /\ InitMarkdown
  /\ InitFile
  /\ InitCli
  /\ InitServe
  /\ InitWatch

\* The author appends one line to the file.
WriteLine ==
  /\ pc = "edit"
  /\ \E l \in NextLines(lines) :
       /\ Size(lines) + Weight(l) <= MaxSize
       /\ lines' = Append(lines, l)
  /\ UNCHANGED <<pc, file_path, todo, used_doc_lines, module_doc_lines,
                 doc_items, doc_keys, class_methods, h_module, h_attached>>
  /\ UNCHANGED <<type_vars, md_vars, file_vars, cli_vars, serve_vars, watch_vars>>

\* parse_python_file(path) up to its main loop: parsers.py:41-108.
ParseStart ==
  /\ pc = "edit"
  /\ LET m == module_docs(lines) IN
       /\ module_doc_lines' = m.docs
       /\ used_doc_lines' = m.used
       /\ h_module' = m.used
       /\ \E path \in FilePaths :
            LET module_name == module_name_of(path) IN
              /\ file_path' = path
              /\ doc_items' = IF Len(m.docs) > 0
                              THEN Put(Empty, module_name,
                                       DocItem(module_name, Join(m.docs), "module", 1,
                                               None, None, None, None))
                              ELSE Empty
              /\ doc_keys' = IF Len(m.docs) > 0 THEN <<module_name>> ELSE <<>>
  /\ todo' = ast_walk(lines)
  /\ class_methods' = Empty
  /\ h_attached' = Empty
  /\ pc' = "walk"
  /\ UNCHANGED lines
  /\ UNCHANGED <<type_vars, md_vars, file_vars, cli_vars, serve_vars, watch_vars>>

\* One iteration of the main loop for a declaration: parsers.py:111-188.
Visit(i) ==
  /\ pc = "walk"
  /\ i \in 1..Len(todo)
  /\ LET n == todo[i]
         s == item_docs_of(lines, n, used_doc_lines)
         parent == parent_of(lines, n)
         item_type == item_type_of(lines, n)
         doc_item == DocItem(lines[n].name, Join(s.docs), item_type, n, parent,
                             args_of(lines, n), return_type_of(lines, n),
                             fields_of(lines, n))
     IN /\ used_doc_lines' = s.used
        /\ h_attached' = Put(h_attached, n, s.lns)
        /\ class_methods' = class_methods_after(class_methods, doc_item)
        /\ doc_items' = doc_items_after(doc_items, full_name_of(lines, n), doc_item)
        /\ doc_keys' = doc_keys_after(doc_keys, full_name_of(lines, n), doc_item)
  /\ todo' = SubSeq(todo, 1, i - 1) \o SubSeq(todo, i + 1, Len(todo))
  /\ UNCHANGED <<lines, pc, file_path, module_doc_lines, h_module>>
  /\ UNCHANGED <<type_vars, md_vars, file_vars, cli_vars, serve_vars, watch_vars>>

\* The loop takes the declarations in the order of ast.walk, parsers.py:111.
VisitNode == Visit(1)

\* The loop is over: attach the buffered methods and return, parsers.py:190-195.
AttachMethods ==
  /\ pc = "walk"
  /\ Len(todo) = 0
  /\ doc_items' = [k \in DOMAIN doc_items |->
                     IF k \in DOMAIN class_methods
                     THEN [doc_items[k] EXCEPT !.methods = sorted_by_lineno(class_methods[k])]
                     ELSE doc_items[k]]
  /\ pc' = "done"
  /\ UNCHANGED <<lines, file_path, todo, used_doc_lines, module_doc_lines,
                 doc_keys, class_methods, h_module, h_attached>>
  /\ UNCHANGED <<type_vars, md_vars, file_vars, cli_vars, serve_vars, watch_vars>>

Next == WriteLine \/ ParseStart \/ VisitNode \/ AttachMethods

Spec == Init /\ [][Next]_vars

\* ---------------------------------------- specification of signatures
\* The author appends a declaration to the file.
WriteDecl ==
  /\ pc = "edit"
  /\ \E l \in DeclNextLines(lines) :
       /\ DeclSize(lines) + DeclWeight(l) <= MaxDecl
       /\ lines' = Append(lines, l)
  /\ UNCHANGED <<pc, file_path, todo, used_doc_lines, module_doc_lines,
                 doc_items, doc_keys, class_methods, h_module, h_attached>>
  /\ UNCHANGED <<type_vars, md_vars, file_vars, cli_vars, serve_vars, watch_vars>>

NextDecl == WriteDecl \/ ParseStart \/ VisitNode \/ AttachMethods

SpecDecl == Init /\ [][NextDecl]_vars

\* ------------------------------ specification of the order of the visits
\* The loop of parsers.py:111 with the declarations taken in any order.
VisitAny == \E i \in 1..Len(todo) : Visit(i)

\* The author appends one line to a file of at most MaxVisited weight.
WriteVisited ==
  /\ pc = "edit"
  /\ \E l \in NextLines(lines) :
       /\ Size(lines) + Weight(l) <= MaxVisited
       /\ lines' = Append(lines, l)
  /\ UNCHANGED <<pc, file_path, todo, used_doc_lines, module_doc_lines,
                 doc_items, doc_keys, class_methods, h_module, h_attached>>
  /\ UNCHANGED <<type_vars, md_vars, file_vars, cli_vars, serve_vars, watch_vars>>

NextAnyOrder == WriteVisited \/ ParseStart \/ VisitAny \/ AttachMethods

SpecAnyOrder == Init /\ [][NextAnyOrder]_vars

\* ------------------------------------- specification of the long files
\* The author appends a comment line or a top-level function header to a
\* file of at most MaxLong lines and MaxLongDecls declarations.
WriteLong ==
  /\ pc = "edit"
  /\ Len(lines) < MaxLong
  /\ \E l \in {Plain("comment", Body((Len(lines) % 20) + 1)), Header("func", <<"A">>, 0)} :
       /\ IsDecl(l) => Cardinality(DeclLines(lines)) < MaxLongDecls
       /\ lines' = Append(lines, l)
  /\ UNCHANGED <<pc, file_path, todo, used_doc_lines, module_doc_lines,
                 doc_items, doc_keys, class_methods, h_module, h_attached>>
  /\ UNCHANGED <<type_vars, md_vars, file_vars, cli_vars, serve_vars, watch_vars>>

NextLong == WriteLong \/ ParseStart \/ VisitNode \/ AttachMethods

SpecLong == Init /\ [][NextLong]_vars

\* --------------------------------------- specification of class bodies
\* The author appends a header, or an assignment to an open body.
WriteBody ==
  /\ pc = "edit"
  /\ \E l \in BodyNextLines(lines) :
       /\ DeclSize(lines) + DeclWeight(l) <= MaxBody
       /\ lines' = Append(lines, l)
  /\ UNCHANGED <<pc, file_path, todo, used_doc_lines, module_doc_lines,
                 doc_items, doc_keys, class_methods, h_module, h_attached>>
  /\ UNCHANGED <<type_vars, md_vars, file_vars, cli_vars, serve_vars, watch_vars>>

NextBody == WriteBody \/ ParseStart \/ VisitNode \/ AttachMethods

SpecBody == Init /\ [][NextBody]_vars

\* -------------------------------- specification of the Markdown renderer
\* The paragraphs that may follow ls in a file whose declarations are all
\* documented or all undocumented: a declaration, below its comment or
\* alone, and, to begin the file, a module comment with three blank lines
\* below it.
Documented(ls) == \A i \in DeclLines(ls) : i > 1 /\ ls[i - 1].kind = "comment"
Undocumented(ls) == \A i \in DeclLines(ls) : i = 1 \/ ls[i - 1].kind # "comment"
ItemParagraphs(ls) ==
  (IF Len(ls) = 0
   THEN {<<Plain("comment", Body(1)), Plain("blank", <<>>), Plain("blank", <<>>),
           Plain("blank", <<>>)>>}
   ELSE {})
  \cup (IF Undocumented(ls)
        THEN {<<Header(k, n, c)>> :
                k \in {"class", "func"}, n \in Names, c \in {0} \cup Open(ls)}
        ELSE {})
  \cup (IF Documented(ls)
        THEN {<<Plain("comment", Body(Len(ls) + 1)), Header(k, n, c)>> :
                k \in {"class", "func"}, n \in Names, c \in {0} \cup Open(ls)}
        ELSE {})

\* The author appends a paragraph to the file.
WriteItem ==
  /\ pc = "edit"
  /\ \E par \in ItemParagraphs(lines) :
       /\ Cardinality(DeclLines(lines \o par)) <= MaxItems
       /\ lines' = lines \o par
  /\ UNCHANGED <<pc, file_path, todo, used_doc_lines, module_doc_lines,
                 doc_items, doc_keys, class_methods, h_module, h_attached>>
  /\ UNCHANGED <<type_vars, md_vars, file_vars, cli_vars, serve_vars, watch_vars>>

\* generate_markdown_docs(doc_items) on the mapping parse_python_file
\* returned.
GenerateMarkdown ==
  /\ pc = "done"
  /\ md_content' = md_content_of(values(doc_items, doc_keys))
  /\ markdown' = generate_markdown_docs(doc_items, doc_keys)
  /\ pc' = "rendered"
  /\ UNCHANGED <<lines, file_path, todo, used_doc_lines, module_doc_lines,
                 doc_items, doc_keys, class_methods, h_module, h_attached>>
  /\ UNCHANGED <<type_vars, file_vars, cli_vars, serve_vars, watch_vars>>

NextMd == WriteItem \/ ParseStart \/ VisitNode \/ AttachMethods \/ GenerateMarkdown

SpecMd == Init /\ [][NextMd]_vars

\* The author appends a paragraph to a file that documents all it declares:
\* a module comment, or a declaration below its comment.
WriteDocumented ==
  /\ pc = "edit"
  /\ \E par \in {x \in ItemParagraphs(lines) : x[1].kind = "comment"} :
       /\ Cardinality(DeclLines(lines \o par)) <= MaxDocumented
       /\ lines' = lines \o par
  /\ UNCHANGED <<pc, file_path, todo, used_doc_lines, module_doc_lines,
                 doc_items, doc_keys, class_methods, h_module, h_attached>>
  /\ UNCHANGED <<type_vars, md_vars, file_vars, cli_vars, serve_vars, watch_vars>>

NextDocumented ==
  WriteDocumented \/ ParseStart \/ VisitNode \/ AttachMethods \/ GenerateMarkdown

SpecDocumented == Init /\ [][NextDocumented]_vars

\* ---------------------------------------- specification of process_file
OutputFormats == {"markdown", "html"}
OutputDirs == {None, <<"o", "u", "t">>}
\* The author appends a paragraph to the file.
EditFile ==
  /\ pc = "edit"
  /\ Len(runs) < MaxRuns
  /\ \E par \in ItemParagraphs(lines) :
       /\ Cardinality(DeclLines(lines \o par)) <= MaxFileItems
       /\ lines' = lines \o par
  /\ UNCHANGED <<pc, file_path, todo, used_doc_lines, module_doc_lines,
                 doc_items, doc_keys, class_methods, h_module, h_attached>>
  /\ UNCHANGED <<type_vars, md_vars, file_vars, cli_vars, serve_vars, watch_vars>>

\* what a call of process_file leaves in the history: its arguments, what
\* the file held, what went wrong around it, and its result
Run(a, input, fault, r) ==
  [file_path |-> a.file_path, output_format |-> a.output_format,
   output_dir |-> a.output_dir, template_name |-> a.template_name,
   doc_style |-> a.doc_style, input |-> input, fault |-> fault,
   raises |-> r.raises, returned |-> r.returned, files |-> r.files,
   dirs |-> r.dirs, doc_items |-> r.doc_items]

\* process_file is called on the file, with the default template and
\* style, and returns.
ProcessFile ==
  /\ pc = "edit"
  /\ Len(runs) < MaxRuns
  /\ \E a \in [file_path : FilePaths, output_format : OutputFormats,
               output_dir : OutputDirs,
               template_name : {<<"d", "e", "f", "a", "u", "l", "t">>},
               doc_style : {"google"}] :
       \E r \in {process_file(lines, a, "none", out_files, out_dirs)} :
          /\ file_path \in {<<>>, a.file_path}
          /\ file_path' = a.file_path
          /\ out_files' = r.files
          /\ out_dirs' = r.dirs
          /\ runs' = Append(runs, Run(a, lines, "none", r))
  /\ UNCHANGED <<lines, pc, todo, used_doc_lines, module_doc_lines,
                 doc_items, doc_keys, class_methods, h_module, h_attached>>
  /\ UNCHANGED <<type_vars, md_vars, cli_vars, serve_vars, watch_vars>>

NextFile == EditFile \/ ProcessFile

SpecFile == Init /\ [][NextFile]_vars

\* ------------------------------- specification of the calls that may fail
\* The last call of process_file of a session: with any format, template
\* and style, and with anything going wrong around it.
ProcessFaulty ==
  /\ pc = "edit"
  /\ \E a \in [file_path : FilePaths, output_format : OutputFormats \cup {"invalid"},
               output_dir : OutputDirs,
               template_name : {<<"d", "e", "f", "a", "u", "l", "t">>,
                                <<"n", "o", "n", "e", "x", "i", "s", "t", "e", "n", "t">>},
               doc_style : {"google", "klingon"}],
        fault \in {"none", "missing", "syntax", "makedirs", "open", "write"} :
       \E r \in {process_file(lines, a, fault, out_files, out_dirs)} :
          /\ file_path \in {<<>>, a.file_path}
          /\ fault \in {"makedirs", "open", "write"} => a.output_dir # None
          /\ file_path' = a.file_path
          /\ out_files' = r.files
          /\ out_dirs' = r.dirs
          /\ runs' = Append(runs, Run(a, lines, fault, r))
  /\ pc' = "exit"
  /\ UNCHANGED <<lines, todo, used_doc_lines, module_doc_lines,
                 doc_items, doc_keys, class_methods, h_module, h_attached>>
  /\ UNCHANGED <<type_vars, md_vars, cli_vars, serve_vars, watch_vars>>

NextCalls ==
  EditFile \/ ProcessFile \/ ProcessFaulty \/ ParseStart \/ VisitNode \/ AttachMethods

SpecCalls == Init /\ [][NextCalls]_vars

\* -------------------------------------------------------------- docu/cli.py
\* the paths of a command line, and those that os.path.exists finds
CliPaths == {<<"A", ".", "p", "y">>, <<"B", ".", "t", "x", "t">>, <<"N", ".", "p", "y">>}
ExistingPaths == {<<"A", ".", "p", "y">>, <<"B", ".", "t", "x", "t">>}
\* print(f"...{arg}..."): the text around the value, and the value
Message(text, arg) == [text |-> text, arg |-> arg]
\* s.endswith(suffix)
endswith(s, suffix) ==
  Len(s) >= Len(suffix) /\ SubSeq(s, Len(s) - Len(suffix) + 1, Len(s)) = suffix

\* cli.py:106-116: the message of the first additional file that fails a
\* check, None when every one passes (and when --files is not given)
\* (variant: the additional files are not checked)
validate_files_skipped(files) == None
RECURSIVE validate_files(_)
validate_files(files) ==
  IF Len(files) = 0 THEN None
  ELSE IF files[1] \notin ExistingPaths
       THEN Message("Error: Additional file not found: {}", files[1])
  ELSE IF ~endswith(files[1], <<".", "p", "y">>)
       THEN Message("Error: {} must be a Python (.py) file", files[1])
  ELSE validate_files(Tail(files))

\* cli.py:118-198, the try block: the callees in the order main invokes
\* them; the callee numbered fail_at raises an exception (0: none does)
invocations(a) ==
  LET files_to_process == <<a.file_path>> \o a.files IN
    IF a.serve THEN <<[fn |-> "watch_and_serve", on |-> files_to_process]>>
    ELSE IF a.watch
         THEN [i \in 1..Len(files_to_process) |->
                 [fn |-> "process_file", on |-> <<files_to_process[i]>>]]
              \o <<[fn |-> "watch_files", on |-> files_to_process]>>
    ELSE <<[fn |-> "process_file", on |-> <<a.file_path>>]>>
\* (variant of try_block: an exception of a callee is swallowed)
try_block_swallowing(a, fail_at, out) ==
  [rc |-> <<0>>, stderr |-> <<>>, stdout |-> out,
   calls |-> [i \in 1..Len(invocations(a)) |->
                [fn |-> invocations(a)[i].fn, on |-> invocations(a)[i].on,
                 raised |-> i = fail_at]]]
try_block(a, fail_at, out) ==
  LET all == invocations(a)
      made == [i \in 1..(IF fail_at \in 1..Len(all) THEN fail_at ELSE Len(all)) |->
                 [fn |-> all[i].fn, on |-> all[i].on, raised |-> i = fail_at]]
      printed ==
        out
        \o (IF a.serve /\ a.verbose
            THEN <<Message("Starting watch mode with live preview server...", None)>> ELSE <<>>)
        \o (IF a.serve /\ a.format # "html"
            THEN <<Message("Notice: Switching to HTML format for live preview server", None)>>
            ELSE <<>>)
        \o (IF ~a.serve /\ a.watch /\ a.verbose
            THEN <<Message("Starting watch mode...", None)>> ELSE <<>>)
        \o (IF a.serve THEN <<>>
            ELSE [i \in 1..Len(SelectSeq(made, LAMBDA c : c.fn = "process_file"))
                         - (IF fail_at \in 1..Len(all) /\ all[fail_at].fn = "process_file"
                            THEN 1 ELSE 0) |->
                    IF a.output_dir # None
                    THEN Message("Documentation saved to: {}", <<"output">>)
                    ELSE Message("{}", <<"output">>)])
        \o (IF ~a.serve /\ a.watch /\ fail_at \notin 1..Len(all)
            THEN <<Message("Watching for file changes. Press Ctrl+C to stop...", None)>> ELSE <<>>)
  IN IF fail_at \in 1..Len(all)
     THEN [rc |-> IF a.verbose THEN <<>> ELSE <<1>>,
           stderr |-> <<Message("Error: {}", <<"e">>)>>, stdout |-> printed, calls |-> made]
     ELSE [rc |-> <<0>>, stderr |-> <<>>, stdout |-> printed, calls |-> made]

\* main(args), cli.py:75-198: [rc, stderr, stdout, calls]
main(a, fail_at) ==
  LET failed(message, out) ==
        [rc |-> <<1>>, stderr |-> <<message>>, stdout |-> out, calls |-> <<>>]
      verbose == IF a.verbose
                 THEN <<Message("Processing file: {}", a.file_path),
                        Message("Output format: {}", <<a.format>>)>>
                      \o (IF a.output_dir # None
                          THEN <<Message("Output directory: {}", a.output_dir)>> ELSE <<>>)
                 ELSE <<>>
  IN IF a.file_path \notin ExistingPaths
     THEN failed(Message("Error: File not found: {}", a.file_path), <<>>)
     ELSE IF ~endswith(a.file_path, <<".", "p", "y">>)
     THEN failed(Message("Error: {} must be a Python (.py) file", a.file_path), <<>>)
     ELSE IF a.serve /\ a.output_dir = None
     THEN failed(Message("Error: --output-dir is required when using --serve", None), <<>>)
     ELSE IF validate_files(a.files) # None
     THEN failed(validate_files(a.files), verbose)
     ELSE try_block(a, fail_at, verbose)

\* ------------------------------------------------ specification of main
\* the values of --files: not given, or one to MaxFiles paths
RECURSIVE PathLists(_)
PathLists(n) ==
  IF n = 0 THEN {<<>>}
  ELSE PathLists(n - 1)
       \cup {Append(l, p) : l \in {x \in PathLists(n - 1) : Len(x) = n - 1}, p \in CliPaths}
CommandLines ==
  [file_path : CliPaths, files : PathLists(MaxFiles), format : OutputFormats,
   output_dir : OutputDirs, verbose : BOOLEAN, watch : BOOLEAN, serve : BOOLEAN]

\* main is called with a command line, once in the life of the process,
\* and runs to its end.
Main ==
  /\ parsed_args = None
  /\ \E a \in CommandLines, fail_at \in 0..(MaxFiles + 2) :
       LET r == main(a, fail_at)
       IN /\ parsed_args' = a
          /\ rc' = r.rc
          /\ stderr' = r.stderr
          /\ stdout' = r.stdout
          /\ calls' = r.calls
  /\ UNCHANGED <<parse_vars, type_vars, md_vars, file_vars, serve_vars, watch_vars>>

NextCli == Main

SpecCli == Init /\ [][NextCli]_vars

\* ------------------------------------------------------- docu/watcher.py
\* the directories a preview server may be started on, and the files there
\* may be in one
Directories == {<<"d", "o", "c", "s">>, <<"o", "u", "t">>}
IndexHtml == <<"i", "n", "d", "e", "x", ".", "h", "t", "m", "l">>
DirNames == {<<"a", ".", "h", "t", "m", "l">>, <<"b", ".", "m", "d">>,
             <<"c", ".", "t", "x", "t">>}
IsDocName(name) ==
  endswith(name, <<".", "h", "t", "m", "l">>) \/ endswith(name, <<".", "m", "d">>)

\* should_update_index, with index.html left in the list
should_update_index_listing_index(dir, cache, files) ==
  LET all_files == {name \in DOMAIN files : IsDocName(name)}
      current_state == {<<name, files[name]>> : name \in all_files}
      changed == dir \notin DOMAIN cache \/ cache[dir] # current_state
  IN [returned |-> changed,
      cache |-> IF changed THEN Put(cache, dir, current_state) ELSE cache]
\* should_update_index(directory): what it returns and the cache it leaves.
should_update_index(dir, cache, files) ==
  LET all_files == {name \in DOMAIN files : IsDocName(name)} \ {IndexHtml}
      current_state == {<<name, files[name]>> : name \in all_files}
      changed == dir \notin DOMAIN cache \/ cache[dir] # current_state
  IN [returned |-> changed,
      cache |-> IF changed THEN Put(cache, dir, current_state) ELSE cache]

\* create_index_html(directory): index.html is written, at the time now.
create_index_html(files, now) == Put(files, IndexHtml, now)

\* run_livereload_server(directory) up to server.serve.
RunLivereloadServer ==
  /\ directory = None
  /\ \E dir \in Directories : directory' = dir
  /\ dir_files' = create_index_html(dir_files, clock)
  /\ clock' = clock + 1
  /\ pending' = TRUE
  /\ UNCHANGED <<file_list_cache, h_rewrites, h_should>>
  /\ UNCHANGED <<parse_vars, type_vars, md_vars, file_vars, cli_vars, watch_vars>>

\* A file of the directory other than index.html is written or removed.
DirChanged ==
  /\ \E name \in DirNames :
       \/ /\ clock < MaxClock
          /\ dir_files' = Put(dir_files, name, clock)
          /\ clock' = clock + 1
          /\ h_rewrites' = IF IsDocName(name) THEN 0 ELSE h_rewrites
       \/ /\ name \in DOMAIN dir_files
          /\ dir_files' = [x \in DOMAIN dir_files \ {name} |-> dir_files[x]]
          /\ clock' = clock
          /\ h_rewrites' = IF IsDocName(name) THEN 0 ELSE h_rewrites
  /\ pending' = (directory # None)
  /\ UNCHANGED <<directory, file_list_cache, h_should>>
  /\ UNCHANGED <<parse_vars, type_vars, md_vars, file_vars, cli_vars, watch_vars>>

\* livereload calls safe_update_index, that is update_index_if_needed.
SafeUpdateIndex ==
  /\ directory # None
  /\ pending
  /\ LET r == should_update_index(directory, file_list_cache, dir_files) IN
       /\ file_list_cache' = r.cache
       /\ h_should' = [files |-> dir_files,
                       cached |-> IF directory \in DOMAIN file_list_cache
                                  THEN <<file_list_cache[directory]>> ELSE <<>>,
                       returned |-> r.returned]
       /\ dir_files' = IF r.returned THEN create_index_html(dir_files, clock)
                        ELSE dir_files
       /\ clock' = IF r.returned THEN clock + 1 ELSE clock
       /\ h_rewrites' = IF r.returned THEN h_rewrites + 1 ELSE h_rewrites
       /\ pending' = r.returned
  /\ UNCHANGED directory
  /\ UNCHANGED <<parse_vars, type_vars, md_vars, file_vars, cli_vars, watch_vars>>

NextServe == RunLivereloadServer \/ DirChanged \/ SafeUpdateIndex

SpecServe == Init /\ [][NextServe]_vars

\* -------------------------------------------- specification of watch mode
\* on_modified, without the try statement around process_file
on_modified_uncaught(h, event, ls, fault, files, dirs) ==
  LET abs_path == IF event.src_path[1] = "/" THEN event.src_path
                   ELSE <<"/">> \o event.src_path
      output == {process_file(ls, [file_path |-> abs_path,
                                   output_format |-> h.output_format,
                                   output_dir |-> h.output_dir,
                                   template_name |-> h.template_name,
                                   doc_style |-> h.doc_style],
                              fault, files, dirs)}
  IN IF ~event.is_directory /\ endswith(abs_path, <<".", "p", "y">>)
        /\ abs_path \in h.target_paths
     THEN CHOOSE x \in {[called |-> TRUE, failed |-> r.raises # None,
                         callback |-> r.raises = None /\ h.callback,
                         escaped |-> r.raises # None, files |-> r.files,
                         dirs |-> r.dirs] : r \in output} : TRUE
     ELSE [called |-> FALSE, failed |-> FALSE, callback |-> FALSE,
           escaped |-> FALSE, files |-> files, dirs |-> dirs]
\* DocuHandler.on_modified(event), the file holding ls: whether process_file
\* was called, whether it raised, whether the callback was called, whether
\* an exception left the handler, and the output files and directories.
\* os.path.abspath is taken in the working directory "/".
on_modified(h, event, ls, fault, files, dirs) ==
  LET abs_path == IF event.src_path[1] = "/" THEN event.src_path
                   ELSE <<"/">> \o event.src_path
      output == {process_file(ls, [file_path |-> abs_path,
                                   output_format |-> h.output_format,
                                   output_dir |-> h.output_dir,
                                   template_name |-> h.template_name,
                                   doc_style |-> h.doc_style],
                              fault, files, dirs)}
  IN IF ~event.is_directory /\ endswith(abs_path, <<".", "p", "y">>)
        /\ abs_path \in h.target_paths
     THEN CHOOSE x \in {[called |-> TRUE, failed |-> r.raises # None,
                         callback |-> r.raises = None /\ h.callback,
                         escaped |-> FALSE, files |-> r.files,
                         dirs |-> r.dirs] : r \in output} : TRUE
     ELSE [called |-> FALSE, failed |-> FALSE, callback |-> FALSE,
           escaped |-> FALSE, files |-> files, dirs |-> dirs]

\* watch_files(file_paths, ...): the handler is scheduled, the observer
\* started.
WatchFiles ==
  /\ handler = None
  /\ pc = "edit"
  /\ \E file_paths \in {{<<"A", ".", "p", "y">>},
                         {<<"A", ".", "p", "y">>, <<"/", "A", ".", "t", "x", "t">>}},
        output_format \in OutputFormats, output_dir \in OutputDirs,
        callback \in BOOLEAN :
       handler' = [target_paths |-> {IF path[1] = "/" THEN path ELSE <<"/">> \o path :
                                       path \in file_paths},
                   output_format |-> output_format, output_dir |-> output_dir,
                   template_name |-> <<"d", "e", "f", "a", "u", "l", "t">>,
                   doc_style |-> "google", callback |-> callback]
  /\ alive' = TRUE
  /\ UNCHANGED <<h_event, h_failed>>
  /\ UNCHANGED <<parse_vars, type_vars, md_vars, file_vars, cli_vars, serve_vars>>

\* The observer's thread hands a modification event to the handler; an
\* exception that leaves the handler ends the thread.
OnModified ==
  /\ handler # None
  /\ alive
  /\ \E event \in [is_directory : BOOLEAN,
                    src_path : {<<"A", ".", "p", "y">>,
                                <<"/", "d", "/", "M", ".", "p", "y", ".", "p", "y">>,
                                <<"/", "A", ".", "t", "x", "t">>}],
        fault \in {"none", "syntax", "write"} :
       /\ fault = "write" => handler.output_dir # None
       /\ \E r \in {on_modified(handler, event, lines, fault, out_files, out_dirs)} :
            /\ out_files' = r.files
            /\ out_dirs' = r.dirs
            /\ alive' = ~r.escaped
            /\ h_event' = [is_directory |-> event.is_directory,
                           src_path |-> event.src_path, called |-> r.called,
                           failed |-> r.failed, callback |-> r.callback]
            /\ h_failed' = (h_failed \/ r.failed)
  /\ UNCHANGED <<handler, runs>>
  /\ UNCHANGED <<parse_vars, type_vars, md_vars, cli_vars, serve_vars>>

NextWatch == EditFile \/ WatchFiles \/ OnModified

SpecWatch == Init /\ [][NextWatch]_vars

\* ------------------------------------ specification of the type renderer
InitTypes ==
  /\ InitParse
  /\ InitMarkdown
  /\ InitFile
  /\ InitCli
  /\ InitServe
  /\ InitWatch
  /\ type_node \in TypeExprs(MaxDepth)
  /\ rendered = <<>>

\* get_type_str(annotation) is called and returns.
RenderType ==
  /\ type_node # None
  /\ rendered = <<>>
  /\ rendered' = <<get_type_str(type_node)>>
  /\ UNCHANGED <<type_node, parse_vars, md_vars, file_vars, cli_vars, serve_vars, watch_vars>>

NextTypes == RenderType

SpecTypes == InitTypes /\ [][NextTypes]_vars

\* ----------------------------------------------------------- properties
Parsing == pc # "edit"
Returned == pc = "done"
CommentLines == {i \in 1..Len(lines) : lines[i].kind = "comment"}
TopLevel == {i \in DeclLines(lines) : lines[i].container = 0}
FirstDeclLine == Min(TopLevel)
Visited == DOMAIN h_attached
Items == {doc_items[k] : k \in DOMAIN doc_items}

\* The bodies of the comment lines S joined by newline, ascending, built
\* from the last line backwards.
RECURSIVE TextOf(_)
TextOf(S) ==
  IF S = {} THEN <<>>
  ELSE LET m == CHOOSE x \in S : \A y \in S : y <= x IN
         IF S = {m} THEN lines[m].text
         ELSE TextOf(S \ {m}) \o <<NL>> \o lines[m].text

\* pathlib's stem: the base name without its last extension.
Stem(path) ==
  LET b == basename(path)
      dots == {k \in 1..Len(b) : b[k] = "."}
  IN IF dots = {} THEN b
     ELSE SubSeq(b, 1, (CHOOSE k \in dots : \A j \in dots : j <= k) - 1)

\* C1: every collected comment line is attributed to at most one
\* documentation item: no line is both a module line and a line attached to
\* a declaration, and no line is attached to two declarations.
C1_Partition ==
  /\ \A d \in Visited : h_attached[d] \cap h_module = {}
  /\ \A d, e \in Visited : d # e => h_attached[d] \cap h_attached[e] = {}
C1_Witness ==
  /\ Returned
  /\ h_module # {}
  /\ \E d \in Visited : h_attached[d] # {} /\ h_attached[d] \subseteq used_doc_lines

\* C2 (as claimed): the lines attached to the declaration at line N are
\* none or a gap-free run ending at N-1, and with comments at N-1, N-2, N-4
\* and a non-comment at N-3 exactly N-1 and N-2 are attached.
C2_Boundary(d) ==
  /\ d >= 5
  /\ {d - 1, d - 2, d - 4} \subseteq CommentLines
  /\ (d - 3) \notin CommentLines
C2_AsClaimed ==
  \A d \in Visited :
    /\ h_attached[d] = {} \/ \E k \in 1..(d - 1) : h_attached[d] = k..(d - 1)
    /\ C2_Boundary(d) => h_attached[d] = {d - 1, d - 2}
\* C2 (amended): the lines attached to the declaration at line N are none
\* or a gap-free run ending at N-1; with comments at N-1, N-2, N-4 and a
\* non-comment at N-3, N-4 is not attached and the attached lines are those
\* of N-1, N-2 that the module pass did not take.
C2_Contiguous ==
  \A d \in Visited :
    /\ h_attached[d] = {} \/ \E k \in 1..(d - 1) : h_attached[d] = k..(d - 1)
    /\ C2_Boundary(d) => h_attached[d] = {d - 1, d - 2} \ h_module
C2_Witness ==
  \E d \in Visited : C2_Boundary(d) /\ h_attached[d] = {d - 1, d - 2}

\* C3: the module-level comment lines are exactly the collected comments c
\* with c < firstDeclLine and firstDeclLine - c > 3, or every collected
\* comment when the file has no top-level declaration; the module text is
\* their bodies joined by newline in ascending line order.
C3_ModuleLevel ==
  Parsing =>
    /\ h_module = {c \in CommentLines :
                     TopLevel = {} \/ (c < FirstDeclLine /\ FirstDeclLine - c > 3)}
    /\ module_doc_lines = [k \in 1..Cardinality(h_module) |->
                             lines[Ascending(h_module)[k]].text]
    /\ (Visited = {} /\ h_module # {}) =>
          /\ module_name_of(file_path) \in DOMAIN doc_items
          /\ doc_items[module_name_of(file_path)].item_type = "module"
          /\ doc_items[module_name_of(file_path)].doc = TextOf(h_module)
C3_Witness ==
  /\ Parsing
  /\ Visited = {}
  /\ TopLevel # {} /\ FirstDeclLine = 6
  /\ h_module = {1, 2}
  /\ doc_items[module_name_of(file_path)].doc = lines[1].text \o <<NL>> \o lines[2].text

\* C4 (as claimed): with collected comments at lines 1 and 2 and the first
\* top-level declaration at line 5, neither line is module-level, no module
\* item is created, and both lines stay unconsumed, attached to nothing.
C4_Case == /\ Parsing
           /\ {1, 2} \subseteq CommentLines
           /\ TopLevel # {} /\ FirstDeclLine = 5
C4_AsClaimed ==
  C4_Case =>
    /\ h_module \cap {1, 2} = {}
    /\ \A k \in DOMAIN doc_items : doc_items[k].item_type # "module"
    /\ used_doc_lines \cap {1, 2} = {}
    /\ \A d \in Visited : h_attached[d] \cap {1, 2} = {}
\* C4 (amended): with collected comments at lines 1 and 2 and the first
\* top-level declaration at line 5, line 1 is module-level (5 - 1 > 3) and
\* is the whole module text, line 2 is not module-level, and line 2 is
\* consumed only when lines 3 and 4 are comments too, by the declaration at
\* line 5.
C4_Threshold ==
  C4_Case =>
    /\ h_module = {1}
    /\ module_doc_lines = <<lines[1].text>>
    /\ Visited = {} => \E k \in DOMAIN doc_items :
                          /\ doc_items[k].item_type = "module"
                          /\ doc_items[k].doc = lines[1].text
    /\ \A d \in Visited : 1 \notin h_attached[d]
    /\ \A d \in Visited : 2 \in h_attached[d] => d = 5 /\ {3, 4} \subseteq CommentLines
    /\ 2 \in used_doc_lines => 5 \in Visited /\ 2 \in h_attached[5]
    /\ (Returned /\ {3, 4} \subseteq CommentLines) => 2 \in h_attached[5]
C4_Witness ==
  /\ C4_Case
  /\ Returned
  /\ {3, 4} \cap CommentLines = {}
  /\ h_module = {1}
  /\ 2 \notin used_doc_lines

\* C5 (as claimed): no line of a contiguous run of comment lines that ends
\* on the line right above the first top-level declaration is module-level,
\* whatever the length of the run.
C5_AsClaimed ==
  (Parsing /\ TopLevel # {}) =>
    \A k \in 1..(FirstDeclLine - 1) :
      (k..(FirstDeclLine - 1)) \subseteq CommentLines => k \notin h_module

\* C6 (as claimed): the returned mapping holds an item of kind module under
\* the file's base name with the extension stripped if and only if at least
\* one comment line was module-level.
C6_AsClaimed ==
  Returned =>
    ((/\ Stem(file_path) \in DOMAIN doc_items
      /\ doc_items[Stem(file_path)].item_type = "module")
     <=> h_module # {})

\* C7 (as claimed): the result has an entry under the bare name of every
\* top-level class and function, and an entry's text is the empty string
\* exactly when no comment line was attached to its declaration.
C7_Entries ==
  \A d \in TopLevel : lines[d].name \in DOMAIN doc_items
C7_AsClaimed ==
  Returned =>
    /\ C7_Entries
    /\ \A v \in Items : v.item_type # "module" =>
         (v.doc = <<>> <=> h_attached[v.lineno] = {})
\* C7 (amended): the result has an entry under the bare name of every
\* top-level class and function, and an entry's text is the empty string
\* exactly when no comment line was attached to its declaration or the only
\* attached line has an empty body.
C7_EmptyText ==
  Returned =>
    /\ C7_Entries
    /\ \A v \in Items : v.item_type # "module" =>
         (v.doc = <<>> <=>
            \/ h_attached[v.lineno] = {}
            \/ \E l \in CommentLines : h_attached[v.lineno] = {l} /\ lines[l].text = <<>>)
C7_Witness ==
  /\ Returned
  /\ \E d \in TopLevel :
       /\ doc_items[lines[d].name].lineno = d
       /\ doc_items[lines[d].name].doc = <<>>
       /\ h_attached[d] # {}

\* C8: in every class item the methods are ordered by declaration line,
\* ascending.
C8_MethodsSorted ==
  \A v \in Items : \A i, j \in 1..Len(v.methods) :
    i < j => v.methods[i].lineno < v.methods[j].lineno
C8_Witness ==
  /\ Returned
  /\ \E v \in Items : v.item_type = "class" /\ Len(v.methods) >= 2

\* C9: no item of kind method is a value of the top-level mapping; a
\* visited method is buffered under the name of its class.
C9_NoMethodAtTop ==
  /\ \A v \in Items : v.item_type # "method"
  /\ \A d \in Visited : item_type_of(lines, d) = "method" =>
       /\ parent_of(lines, d) \in DOMAIN class_methods
       /\ \E i \in 1..Len(class_methods[parent_of(lines, d)]) :
            class_methods[parent_of(lines, d)][i].lineno = d
C9_Witness ==
  /\ Returned
  /\ \E d \in Visited : item_type_of(lines, d) = "method"
  /\ \E v \in Items : \E i \in 1..Len(v.methods) : v.methods[i].item_type = "method"

\* C10 (as claimed): for every item C of the result and every M in
\* C.methods, C is a class, M is a method, M.parent is C.name and M was
\* declared directly in the body of the class declaration that produced C.
C10_AsClaimed ==
  Returned =>
    \A v \in Items : \A i \in 1..Len(v.methods) :
      /\ v.item_type = "class"
      /\ v.methods[i].item_type = "method"
      /\ v.methods[i].parent = v.name
      /\ lines[v.methods[i].lineno].container = v.lineno

\* Every record the parse has built: the values of the mapping and the
\* buffered methods.
Records ==
  Items \cup UNION {{class_methods[k][i] : i \in 1..Len(class_methods[k])} :
                     k \in DOMAIN class_methods}

\* C11 (as claimed): every class or function item of the returned mapping is
\* keyed by its bare name; no key has the form parent.name.
C11_AsClaimed ==
  Returned =>
    \A k \in DOMAIN doc_items :
      doc_items[k].item_type # "module" => k = doc_items[k].name
\* C11 (amended): every class or function item of the returned mapping is
\* keyed by its bare name when it has no parent, and by parent.name when it
\* has one (a class declared directly in the body of a class).
C11_FullName ==
  Returned =>
    \A k \in DOMAIN doc_items :
      doc_items[k].item_type # "module" =>
        k = IF doc_items[k].parent = None THEN doc_items[k].name
            ELSE doc_items[k].parent \o <<".">> \o doc_items[k].name
C11_Witness ==
  /\ Returned
  /\ <<"A", ".", "B">> \in DOMAIN doc_items
  /\ doc_items[<<"A", ".", "B">>].item_type = "class"
  /\ doc_items[<<"A", ".", "B">>].parent = <<"A">>
  /\ <<"A">> \in DOMAIN doc_items /\ doc_items[<<"A">>].parent = None

\* C12 (as claimed): a declaration's parent is the name of the nearest
\* class around it, at any nesting depth, and a top-level declaration has
\* none; a function with a parent has kind method, one without has kind
\* function, a class declaration has kind class.
C12_Kinds(v) ==
  v.item_type = IF lines[v.lineno].kind = "class" THEN "class"
                ELSE IF v.parent # None THEN "method" ELSE "function"
C12_AsClaimed ==
  \A v \in Records : v.item_type # "module" =>
    /\ v.parent = enclosing_class(lines, lines[v.lineno].container)
    /\ C12_Kinds(v)
\* C12 (amended): a declaration's parent is the name of the class whose
\* body holds the declaration directly; a top-level declaration, and one
\* held by the body of a function or of a compound statement inside a class,
\* has no parent; the kinds are as claimed.
C12_DirectParent ==
  \A v \in Records : v.item_type # "module" =>
    /\ v.parent = IF lines[v.lineno].container # 0
                      /\ lines[lines[v.lineno].container].kind = "class"
                   THEN lines[lines[v.lineno].container].name ELSE None
    /\ C12_Kinds(v)
C12_Witness ==
  /\ Returned
  /\ \E v, w \in Records :
       /\ w.item_type = "method" /\ w.parent # None
       /\ lines[v.lineno].container = w.lineno
       /\ v.item_type = "function" /\ v.parent = None

\* The parameters a function is declared with, in declaration order.
DeclaredParams(l) ==
  l.args.posonlyargs \o l.args.args
  \o (IF l.args.vararg # None THEN <<l.args.vararg>> ELSE <<>>)
  \o l.args.kwonlyargs
  \o (IF l.args.kwarg # None THEN <<l.args.kwarg>> ELSE <<>>)
\* Without the receiver: a first parameter named self.
WithoutReceiver(ps) ==
  IF Len(ps) > 0 /\ ps[1].arg = <<"s", "e", "l", "f">> THEN Tail(ps) ELSE ps

\* C13 (as claimed): the arguments of every function or method item are,
\* in declaration order, every declared parameter of the declaration except
\* a receiver named self, each with the rendered annotation as type hint
\* when it is annotated and with none otherwise.
C13_AsClaimed ==
  \A v \in Records : v.item_type \in {"function", "method"} =>
    LET ps == WithoutReceiver(DeclaredParams(lines[v.lineno])) IN
      v.args = [i \in 1..Len(ps) |->
                  [name |-> ps[i].arg,
                   type_hint |-> IF ps[i].annotation # None
                                 THEN get_type_str(ps[i].annotation) ELSE None,
                   default |-> None]]

\* C14: the fields of a class item are exactly the direct statements of the
\* class body that are annotated assignments to a simple name, each name
\* mapped to the rendered annotation (of the last such statement for the
\* name); unannotated assignments, other targets and annotated assignments
\* deeper than the class body contribute nothing.
C14_Direct(n) ==
  {i \in 1..Len(lines) : /\ lines[i].container = n
                         /\ lines[i].kind = "annassign"
                         /\ lines[i].target.node = "Name"}
C14_Fields ==
  \A v \in Records : v.item_type = "class" =>
    LET D == C14_Direct(v.lineno) IN
      /\ {v.fields[k][1] : k \in 1..Len(v.fields)} = {lines[i].target.id : i \in D}
      /\ \A k, j \in 1..Len(v.fields) : v.fields[k][1] = v.fields[j][1] => k = j
      /\ \A k \in 1..Len(v.fields) : \E i \in D :
           /\ lines[i].target.id = v.fields[k][1]
           /\ \A j \in D : lines[j].target.id = v.fields[k][1] => j <= i
           /\ v.fields[k][2] = get_type_str(lines[i].annotation)
C14_Witness ==
  /\ Returned
  /\ \E v \in Records :
       /\ v.item_type = "class"
       /\ v.fields = << <<<<"x">>, <<"i", "n", "t">>>>, <<<<"y">>, <<"s", "t", "r">>>> >>
       /\ \E i \in 1..Len(lines) :
            /\ lines[i].container = v.lineno
            /\ lines[i].kind = "assign" /\ lines[i].target = Name(<<"z">>)

\* The syntax tree of the annotation Dict[str, Optional[int]]: the slice of
\* a subscript is the expression itself from Python 3.9 on, and an Index
\* node around it before.
DictStrOptionalInt ==
  {Subscript(Name(<<"D", "i", "c", "t">>), Tuple(<<Name(<<"s", "t", "r">>), Subscript(Name(<<"O", "p", "t", "i", "o", "n", "a", "l">>), Name(<<"i", "n", "t">>))>>)),
   Subscript(Name(<<"D", "i", "c", "t">>),
             Index(Tuple(<<Name(<<"s", "t", "r">>), Subscript(Name(<<"O", "p", "t", "i", "o", "n", "a", "l">>), Index(Name(<<"i", "n", "t">>)))>>)))}

\* C15 (as claimed): get_type_str renders a subscript as the rendered base
\* followed by the rendered inner part in square brackets, and the
\* annotation Dict[str, Optional[int]] as exactly "Dict[str, Optional[int]]".
C15_AsClaimed ==
  rendered # <<>> =>
    /\ type_node.node = "Subscript" =>
         rendered[1] = get_type_str(type_node.value) \o <<"[">>
                       \o get_type_str(type_node.slice) \o <<"]">>
    /\ type_node \in DictStrOptionalInt =>
         rendered[1] = <<"D", "i", "c", "t", "[", "s", "t", "r", ",", " ", "O", "p", "t", "i", "o", "n", "a", "l", "[", "i", "n", "t", "]", "]">>

\* ---------------------------------------------- the Markdown a file gives
Rendered == pc = "rendered"
HasPrefix(s, p) == Len(s) >= Len(p) /\ SubSeq(s, 1, Len(p)) = p
\* the places of md_content that hold a part beginning with p
PartsWith(p) == {i \in 1..Len(md_content) : HasPrefix(md_content[i], p)}
ModuleHeading == <<"#", " ", "M", "o", "d", "u", "l", "e", " ">>
ClassesHeading == <<"#", "#", " ", "C", "l", "a", "s", "s", "e", "s">>
FunctionsHeading == <<"#", "#", " ", "F", "u", "n", "c", "t", "i", "o", "n", "s">>
MethodsHeading == <<"\n", "#", "#", "#", "#", " ", "M", "e", "t", "h", "o", "d", "s">>
ClassHeading == <<"\n", "#", "#", "#", " ", "c", "l", "a", "s", "s", " ">>
MethodHeading == <<"\n", "#", "#", "#", "#", "#", " ">>
FunctionHeading == <<"\n", "#", "#", "#", " ">>
\* the names under the headings that begin with p, in the order of the output
NamesUnder(p) ==
  LET at == Ascending(PartsWith(p))
  IN [i \in 1..Len(at) |-> SubSeq(md_content[at[i]], Len(p) + 1, Len(md_content[at[i]]))]
Alphabetical(names) ==
  \A i, j \in 1..Len(names) : i < j => name_rank(names[i]) <= name_rank(names[j])
ItemsOfType(t) == {v \in Items : v.item_type = t}

\* The file of C16: module comments, a documented class with two documented
\* methods, a documented standalone function.
C16_File ==
  /\ \E m \in ItemsOfType("module") : m.doc # <<>>
  /\ \E f \in ItemsOfType("function") : f.doc # <<>>
  /\ \E c \in ItemsOfType("class") :
       /\ c.doc # <<>>
       /\ Len(c.methods) = 2
       /\ \A i \in 1..2 : c.methods[i].doc # <<>>
\* C16 (as claimed): for such a file the output holds, in this order, a
\* module heading, the Classes section with the class heading, a Methods
\* subsection that lists every method of the class in alphabetical order of
\* name, and the Functions section with the function.
C16_AsClaimed ==
  Rendered /\ C16_File =>
    \E h \in PartsWith(ModuleHeading), c \in PartsWith(ClassesHeading),
       k \in PartsWith(ClassHeading), m \in PartsWith(MethodsHeading),
       f \in PartsWith(FunctionsHeading), g \in PartsWith(FunctionHeading) :
      /\ h < c /\ c < k /\ k < m /\ m < f /\ f < g
      /\ \A i \in PartsWith(MethodHeading) : m < i /\ i < f
      /\ Alphabetical(NamesUnder(MethodHeading))
      /\ Len(NamesUnder(MethodHeading))
           = Cardinality(UNION {{<<v.lineno, i>> : i \in 1..Len(v.methods)} :
                                  v \in ItemsOfType("class")})

\* C17 (as claimed): the output has a module heading only when a module
\* item with text is present, a Classes section if and only if there is a
\* class item, a Functions section if and only if there is a function item;
\* classes and functions appear sorted alphabetically by name.
C17_Sections ==
  /\ PartsWith(ClassesHeading) # {} <=> ItemsOfType("class") # {}
  /\ PartsWith(FunctionsHeading) # {} <=> ItemsOfType("function") # {}
  /\ Len(NamesUnder(ClassHeading)) = Cardinality(ItemsOfType("class"))
  /\ Len(NamesUnder(FunctionHeading)) - Len(NamesUnder(ClassHeading))
       = Cardinality(ItemsOfType("function"))
  /\ Alphabetical(NamesUnder(ClassHeading))
  /\ Alphabetical(SelectSeq(NamesUnder(FunctionHeading),
                            LAMBDA n : ~HasPrefix(n, <<"c", "l", "a", "s", "s", " ">>)))
C17_AsClaimed ==
  Rendered =>
    /\ PartsWith(ModuleHeading) # {} => \E m \in ItemsOfType("module") : m.doc # <<>>
    /\ C17_Sections
\* C17 (amended): the output has a module heading only when a module item
\* with text or a class item is present; the rest as claimed.
C17_Omitted ==
  Rendered =>
    /\ PartsWith(ModuleHeading) # {} =>
         \/ \E m \in ItemsOfType("module") : m.doc # <<>>
         \/ ItemsOfType("class") # {}
    /\ C17_Sections
C17_Witness ==
  /\ Rendered
  /\ ItemsOfType("module") = {}
  /\ NamesUnder(ClassHeading) = <<<<"A">>, <<"B">>>>
  /\ doc_keys = <<<<"B">>, <<"A">>>>
  /\ PartsWith(FunctionsHeading) = {}
  /\ PartsWith(ModuleHeading) # {}

\* ------------------------------------------------ the calls of process_file
Contains(s, p) == \E i \in 1..(Len(s) - Len(p) + 1) : SubSeq(s, i, i + Len(p) - 1) = p
\* a call with the default format that returns the content
ReturnsMarkdown(run) == run.output_format = "markdown" /\ run.output_dir = None
\* a file that declares a class or function and has no documentation comment
Undocumented_Declaring(ls) ==
  /\ DeclLines(ls) # {}
  /\ \A i \in 1..Len(ls) : ls[i].kind # "comment"

\* C18 (as claimed): for every file that declares at least one class or
\* function and has no documentation comments, process_file with the
\* Markdown format returns non-empty content that contains '# Module'.
C18_AsClaimed ==
  \A i \in 1..Len(runs) :
    ReturnsMarkdown(runs[i]) /\ Undocumented_Declaring(runs[i].input) =>
      /\ runs[i].returned # <<>>
      /\ Contains(runs[i].returned, <<"#", " ", "M", "o", "d", "u", "l", "e">>)

SameArguments(a, b) ==
  /\ a.output_format = b.output_format
  /\ a.output_dir = b.output_dir
  /\ a.input = b.input
\* C19: two calls of process_file with the same arguments on an unchanged
\* file give the same result: the same returned value and, when an output
\* directory is given, the same content in the output file, whatever the
\* calls before left behind.
C19_Idempotent ==
  \A i, j \in 1..Len(runs) :
    i < j /\ SameArguments(runs[i], runs[j]) =>
      /\ runs[i].returned = runs[j].returned
      /\ runs[i].output_dir # None =>
           runs[i].files[runs[i].returned] = runs[j].files[runs[j].returned]
C19_Witness ==
  /\ Len(runs) = 2
  /\ SameArguments(runs[1], runs[2])
  /\ runs[1].output_dir # None
  /\ DeclLines(runs[1].input) # {}
  /\ out_files[runs[2].returned] # <<>>

\* ---------------------------------------------------- the calls of main
\* the paths of a command line that are missing or do not end in .py
BadPaths(a) ==
  {p \in {a.file_path} \cup {a.files[i] : i \in 1..Len(a.files)} :
     p \notin ExistingPaths \/ SubSeq(p, Len(p) - 2, Len(p)) # <<".", "p", "y">>}
Names_a_path(message, paths) == message.arg \in paths

\* C20: when file_path is missing or does not end in .py, or a path given
\* with --files is, main returns 1, has written one message to the error
\* stream, and has invoked none of process_file, watch_files and
\* watch_and_serve; the message names the file path when the file path is
\* at fault, and otherwise names an offending path or is the message of
\* another check made before processing.
C20_InputErrorsFirst ==
  parsed_args # None /\ BadPaths(parsed_args) # {} =>
    /\ rc = <<1>>
    /\ calls = <<>>
    /\ Len(stderr) = 1
    /\ parsed_args.file_path \in BadPaths(parsed_args) =>
         Names_a_path(stderr[1], {parsed_args.file_path})
    /\ \/ Names_a_path(stderr[1], BadPaths(parsed_args))
       \/ stderr[1].text = "Error: --output-dir is required when using --serve"
C20_Witness ==
  /\ parsed_args # None
  /\ parsed_args.file_path \notin BadPaths(parsed_args)
  /\ Len(parsed_args.files) = 2
  /\ parsed_args.files[1] \notin BadPaths(parsed_args)
  /\ parsed_args.files[2] \in BadPaths(parsed_args)
  /\ parsed_args.watch /\ parsed_args.verbose
  /\ rc = <<1>> /\ calls = <<>>
  /\ stderr = <<Message("Error: Additional file not found: {}", parsed_args.files[2])>>

\* a callee of main has raised an exception
Raised == \E i \in 1..Len(calls) : calls[i].raised
\* the command line has passed every check made before processing
Validated ==
  /\ BadPaths(parsed_args) = {}
  /\ ~(parsed_args.serve /\ parsed_args.output_dir = None)

PriorFiles(i) == IF i = 1 THEN Empty ELSE runs[i - 1].files
PriorDirs(i) == IF i = 1 THEN {} ELSE runs[i - 1].dirs
\* a call that nothing around it disturbs
Undisturbed(run) == run.fault = "none"

\* C22 (as claimed): process_file called with an output format that is
\* neither 'markdown' nor 'html' fails with a ValueError and produces no
\* content and no output file.
C22_AsClaimed ==
  \A i \in 1..Len(runs) :
    Undisturbed(runs[i]) /\ runs[i].output_format \notin {"markdown", "html"} =>
      /\ runs[i].raises = <<"ValueError">>
      /\ runs[i].returned = None
      /\ runs[i].files = PriorFiles(i)

\* C23 (as claimed): for every output format, a call of process_file with
\* a template name that does not exist or with an unsupported doc style
\* fails with a ValueError and returns no result.
C23_AsClaimed ==
  \A i \in 1..Len(runs) :
    /\ Undisturbed(runs[i])
    /\ \/ runs[i].template_name \notin TemplateFiles
       \/ runs[i].doc_style \notin {"google", "numpy", "sphinx"}
    => /\ runs[i].raises = <<"ValueError">>
       /\ runs[i].returned = None

\* the module text and the text of every declaration, by line, of a
\* document model
Texts(items) ==
  LET vals == {items[k] : k \in DOMAIN items}
      all == vals \cup UNION {{v.methods[m] : m \in 1..Len(v.methods)} : v \in vals}
  IN {<<IF v.item_type = "module" THEN 0 ELSE v.lineno, v.doc>> : v \in all}
\* C24 (as claimed): for every input file the module text and every
\* declaration's text that process_file renders equal those built by
\* parsers.parse_python_file.
C24_AsClaimed ==
  pc = "done" =>
    \A i \in 1..Len(runs) :
      /\ runs[i].raises = None
      /\ runs[i].input = lines
      /\ runs[i].file_path = file_path
      => Texts(runs[i].doc_items) = Texts(doc_items)

\* C25 (as claimed): if a call of process_file with an output directory
\* fails at any step, the output directory has not been created and no
\* output file has been created or modified.
C25_AsClaimed ==
  \A i \in 1..Len(runs) :
    runs[i].output_dir # None /\ runs[i].raises # None =>
      /\ runs[i].dirs = PriorDirs(i)
      /\ runs[i].files = PriorFiles(i)

\* ------------------------------------------------- the upward scan, again
\* The scan for the declaration at line n reaches line k, a line without a
\* collected comment: k is within the look-back and every line between k
\* and n holds a comment.
ScanReaches(n, k) ==
  /\ n \in DeclLines(lines)
  /\ k \in 1..(n - 1) /\ k > Max(0, n - LookBack)
  /\ lines[k].kind # "comment"
  /\ \A j \in (k + 1)..(n - 1) : lines[j].kind = "comment"

\* C26 (as claimed): when the scanned line is not a collected comment, the
\* scan stops if that very line is non-blank and goes on past it if that
\* very line is blank.
C26_AsClaimed ==
  \A n, k \in 1..Len(lines) :
    ScanReaches(n, k) =>
      scan_step(lines, doc_lines_of(extract_doc_comments(lines)), n, k, used_doc_lines)
        = IF lines[k].kind = "blank" THEN "skip" ELSE "break"

\* The parser's loop run over the declarations ds in the order given, from
\* the consumed set used: the lines attached to each, and the consumed set.
RECURSIVE InOrder(_, _)
InOrder(ds, acc) ==
  IF ds = <<>> THEN acc
  ELSE LET s == item_docs_of(lines, Head(ds), acc.used)
       IN InOrder(Tail(ds), [attached |-> Put(acc.attached, Head(ds), s.lns),
                             used |-> s.used])
WalkOrder == InOrder(ast_walk(lines), [attached |-> Empty, used |-> h_module])

\* C27: whatever the order in which the declarations were visited, each
\* declaration has received the comment lines it receives in the order of
\* ast.walk, and the consumed set is the same.
C27_OrderIndependent ==
  Returned =>
    /\ h_attached = WalkOrder.attached
    /\ used_doc_lines = WalkOrder.used
\* Two declarations with comments attached, the later one visited first.
C27_Witness ==
  /\ Returned
  /\ \E d, e \in Visited :
       /\ d < e
       /\ h_attached[d] # {} /\ h_attached[e] # {}
       /\ \E i, j \in 1..Len(doc_keys) :
            /\ i < j
            /\ doc_keys[i] = full_name_of(lines, e)
            /\ doc_keys[j] = full_name_of(lines, d)
            /\ full_name_of(lines, d) # full_name_of(lines, e)

\* The comment line c belongs to a run of comments that ends right above
\* the declaration d and that nothing else has consumed.
InUnconsumedRun(c, d) ==
  /\ c \in CommentLines /\ c < d
  /\ \A j \in c..(d - 1) :
       /\ j \in CommentLines
       /\ j \notin h_module
       /\ \A e \in Visited \ {d} : j \notin h_attached[e]

\* C28 (as claimed): the scan for the declaration at line N looks back 20
\* lines: nothing below N-20 is attached, and every line of an unconsumed
\* run of comments ending at N-1 that lies within N-20..N-1 is attached.
C28_AsClaimed ==
  \A d \in Visited :
    /\ \A c \in h_attached[d] : c >= d - LookBack
    /\ \A c \in 1..(d - 1) :
         (c >= d - LookBack /\ InUnconsumedRun(c, d)) => c \in h_attached[d]
\* C28 (amended): the scan looks back 19 lines: nothing below N-19 is
\* attached, and every line of an unconsumed run of comments ending at N-1
\* that lies within N-19..N-1 is attached; of a run of 20 the line N-20 is
\* left out.
C28_LooksBack19 ==
  \A d \in Visited :
    /\ \A c \in h_attached[d] : c > d - LookBack
    /\ \A c \in 1..(d - 1) :
         (c > d - LookBack /\ InUnconsumedRun(c, d)) => c \in h_attached[d]
    /\ (d > LookBack /\ InUnconsumedRun(d - LookBack, d)) =>
         h_attached[d] = (d - LookBack + 1)..(d - 1)
C28_Witness ==
  /\ Returned
  /\ \E d \in Visited :
       /\ d > LookBack
       /\ InUnconsumedRun(d - LookBack, d)
       /\ Cardinality(h_attached[d]) = LookBack - 1

\* ------------------------------------------------------ the preview server
\* The (name, modification time) pairs of the .html and .md files among
\* files, index.html apart.
Listing(files) ==
  {<<name, files[name]>> :
     name \in {x \in DOMAIN files : x # IndexHtml /\ IsDocName(x)}}

\* C29: should_update_index returns True only when the listing of the
\* directory, index.html apart, differs from what is cached for the
\* directory or nothing is cached, and leaves the listing in the cache;
\* update_index_if_needed writes index.html at most once for as long as no
\* documentation file changes.
C29_Quiesces ==
  /\ h_rewrites <= 1
  /\ h_should # None =>
       /\ h_should.returned =
            (h_should.cached = <<>> \/ h_should.cached[1] # Listing(h_should.files))
       /\ file_list_cache[directory] = Listing(h_should.files)
\* The server has rewritten index.html once, has been called again because
\* of that write, and has left index.html alone.
C29_Witness ==
  /\ h_rewrites = 1
  /\ ~pending
  /\ h_should # None /\ ~h_should.returned
  /\ \E name \in DOMAIN dir_files : name # IndexHtml /\ IsDocName(name)

\* --------------------------------------------------------------- watch mode
\* The event is the modification of a file, not a directory, whose absolute
\* path ends in .py and is one of the handler's target paths.
OfTarget(e) ==
  LET path == IF e.src_path[1] = "/" THEN e.src_path ELSE <<"/">> \o e.src_path
  IN /\ ~e.is_directory
     /\ Len(path) >= 3 /\ SubSeq(path, Len(path) - 2, Len(path)) = <<".", "p", "y">>
     /\ path \in handler.target_paths

\* C30: the observer's thread outlives every regeneration that fails;
\* on_modified calls process_file for the modification events of target
\* files ending in .py and for no other event, and when process_file raises
\* the callback is not called.
C30_WatcherSurvives ==
  /\ handler # None => alive
  /\ h_event # None =>
       /\ h_event.called = OfTarget(h_event)
       /\ h_event.failed => ~h_event.callback
       /\ (h_event.called /\ ~h_event.failed) => h_event.callback = handler.callback
\* After a regeneration that failed, the modification of a target file has
\* been processed and the callback called.
C30_Witness ==
  /\ h_failed
  /\ h_event # None
  /\ h_event.called /\ ~h_event.failed /\ h_event.callback
  /\ out_files # Empty

====
